---- MODULE Spec2Model ----
(***************************************************************************)
(* Model of the brand-analysis pipeline of service/twelvelabs_analyze_brand *)
(* (TwelveLabsBrandAnalyzer.analyze and the helpers it calls): the cache    *)
(* keys, the envelope and its JSON form, the ingest with download fallback, *)
(* the two wait loops and the two-tier cache, run by concurrent calls.      *)
(*                                                                          *)
(* Text is a sequence of one-character strings, so that lower-casing,       *)
(* regular-expression substitution and key concatenation are computed.      *)
(***************************************************************************)
EXTENDS Integers, Sequences, FiniteSets, TLC

\* ------------------------------------------------------------------ values
\* Python's None where a record is expected (a URL, an envelope, an exception).
None == [t |-> "none"]

\* Python's None where text is expected: text is a sequence of one-character
\* strings (or of whole words, for literals whose characters never matter), so
\* no text equals this one.
NoneText == <<"None">>

\* ------------------------------------------------------------------ text
UpperChars == {"A", "B"}
LowerChars == {"a", "b", "d", "e", "i", "l", "o", "t", "v"}
DigitChars == {"1", "2"}

\* str.lower() on one character.
LowerChar(ch) ==
    CASE ch = "A" -> "a"
      [] ch = "B" -> "b"
      [] ch = "É" -> "é"
      [] OTHER -> ch

\* str.lower()
Lower(s) == [i \in 1..Len(s) |-> LowerChar(s[i])]

\* The character class [a-z0-9] of _brand_key's pattern.
IsAlnumLower(ch) == ch \in LowerChars \cup DigitChars

\* re.sub(r"[^a-z0-9]+", "_", s): every maximal run of characters outside
\* [a-z0-9] becomes one "_".
RECURSIVE SubNonAlnum(_, _)
SubNonAlnum(s, inRun) ==
    IF s = <<>> THEN <<>>
    ELSE IF IsAlnumLower(Head(s)) THEN <<Head(s)>> \o SubNonAlnum(Tail(s), FALSE)
    ELSE IF inRun THEN SubNonAlnum(Tail(s), TRUE)
    ELSE <<"_">> \o SubNonAlnum(Tail(s), TRUE)

\* str.lstrip(ch)
RECURSIVE LStrip(_, _)
LStrip(s, ch) ==
    IF s # <<>> /\ Head(s) = ch THEN LStrip(Tail(s), ch) ELSE s

\* str.rstrip(ch)
RECURSIVE RStrip(_, _)
RStrip(s, ch) ==
    IF s # <<>> /\ s[Len(s)] = ch THEN RStrip(SubSeq(s, 1, Len(s) - 1), ch) ELSE s

\* str.strip(ch)
Strip(s, ch) == RStrip(LStrip(s, ch), ch)

\* str.endswith(suffix)
EndsWith(s, suffix) ==
    /\ Len(s) >= Len(suffix)
    /\ SubSeq(s, Len(s) - Len(suffix) + 1, Len(s)) = suffix

\* s.split(ch)[0]: the text before the first ch.
RECURSIVE Before(_, _)
Before(s, ch) ==
    IF s = <<>> \/ Head(s) = ch THEN <<>> ELSE <<Head(s)>> \o Before(Tail(s), ch)

\* A key that keeps the separators at the ends.
brand_key_unstripped(brand) == SubNonAlnum(Lower(brand), FALSE)

\* _brand_key
brand_key(brand) == Strip(SubNonAlnum(Lower(brand), FALSE), "_")

\* ------------------------------------------------------------------ URLs
\* A URL as urlparse splits it: netloc, the path's non-empty segments, and the
\* query's "&"-separated parts as <<key, value>>. The empty string has no
\* netloc, no segment and no part.
EmptyUrl == [netloc |-> <<>>, path |-> <<>>, query |-> <<>>]

\* Python truthiness of an Optional[str] holding a URL.
Truthy(u) == u # None /\ u # EmptyUrl

\* Python truthiness of an Optional[str] holding an id.
TruthyText(s) == s # NoneText /\ s # <<>>

HostYoutuBe == <<"y", "o", "u", "t", "u", ".", "b", "e">>
HostYoutubeCom == <<"y", "o", "u", "t", "u", "b", "e", ".", "c", "o", "m">>
SegShorts == <<"s", "h", "o", "r", "t", "s">>
SegEmbed == <<"e", "m", "b", "e", "d">>
SegLive == <<"l", "i", "v", "e">>
SegWatch == <<"w", "a", "t", "c", "h">>

\* _is_youtube_url
is_youtube_url(url) ==
    LET host == Lower(url.netloc)
    IN  EndsWith(host, HostYoutubeCom) \/ EndsWith(host, HostYoutuBe)

\* The first query part named "v" with a non-empty value, or None.
RECURSIVE QueryV(_)
QueryV(q) ==
    IF q = <<>> THEN NoneText
    ELSE IF Head(q)[1] = <<"v">> /\ Head(q)[2] # <<>> THEN Head(q)[2]
    ELSE QueryV(Tail(q))

\* _extract_youtube_id
extract_youtube_id(url) ==
    IF ~Truthy(url) THEN NoneText
    ELSE LET host == Lower(url.netloc)
             segments == url.path
         IN  IF EndsWith(host, HostYoutuBe)
             THEN IF segments # <<>> THEN segments[1] ELSE NoneText
             ELSE IF EndsWith(host, HostYoutubeCom)
             THEN IF /\ segments # <<>>
                     /\ segments[1] \in {SegShorts, SegEmbed, SegLive}
                     /\ Len(segments) >= 2
                  THEN LET vid == Before(Before(segments[2], "?"), "&")
                       IN  IF vid # <<>> THEN vid ELSE NoneText
                  ELSE QueryV(url.query)
             ELSE NoneText

\* analyze, lines 389-393: the YouTube id of the request, if any.
yt_id_of(r) ==
    IF Truthy(r.youtube_url) THEN extract_youtube_id(r.youtube_url)
    ELSE IF Truthy(r.video_url) /\ is_youtube_url(r.video_url)
    THEN extract_youtube_id(r.video_url)
    ELSE NoneText

\* ------------------------------------------------------------------ cache keys
\* TwelveLabsAnalyzeConfig.redis_prefix
redis_prefix == <<"b", "a", ":", "y", "t", ":">>

\* _redis_key_video_map
redis_key_video_map(prefix, yt_id) ==
    prefix \o yt_id \o <<":", "t", "l", "_", "v", "i", "d", "e", "o", "_", "i", "d">>

\* The analysis key a case-sensitive cache would use: the brand as given.
redis_key_analysis_verbatim(prefix, yt_id, brand) ==
    prefix \o yt_id \o <<":", "a", "n", "a", "l", "y", "s", "i", "s", ":">> \o brand

\* _redis_key_analysis
redis_key_analysis(prefix, yt_id, brand) ==
    prefix \o yt_id \o <<":", "a", "n", "a", "l", "y", "s", "i", "s", ":">> \o brand_key(brand)

\* ------------------------------------------------------------------ JSON
\* A JSON value, as json.loads returns it and json.dumps takes it: a tagged
\* record, so that values of different JSON types compare unequal.
JNull == [t |-> "null"]
JStr(s) == [t |-> "str", v |-> s]
JNum(n) == [t |-> "num", v |-> n]
JList(items) == [t |-> "list", v |-> items]
JObj(fields) == [t |-> "obj", v |-> fields]

IsStr(j) == j.t = "str"
IsNum(j) == j.t = "num"
IsList(j) == j.t = "list"
IsObj(j) == j.t = "obj"
Has(j, k) == IsObj(j) /\ k \in DOMAIN j.v

\* An Optional[str] field of a model, dumped: null for None.
DumpOptText(s) == IF s = NoneText THEN JNull ELSE JStr(s)

\* A str held by the cache or returned by the generation call: its characters,
\* and what json.loads makes of it: it raises (loads.t = "error") or returns
\* the JSON value `loads`.
JsonError == [t |-> "error"]
IsText(x) == x.t = "text"
LoadsRaises(text) == text.loads = JsonError

\* json.dumps(value): the text whose json.loads is value (its characters
\* never matter: one word).
json_dumps(value) == [t |-> "text", chars |-> <<"json">>, loads |-> value]

\* A str that was not made by json.dumps (an id): json.loads reads a number
\* if it is one digit and raises otherwise.
PlainText(s) ==
    [t |-> "text", chars |-> s,
     loads |-> IF Len(s) = 1 /\ s[1] \in DigitChars
               THEN JNum(IF s[1] = "1" THEN 1 ELSE 2) ELSE JsonError]

\* ------------------------------------------------------------------ models
\* brand_analysis_models.MentionType
MentionType ==
    { <<"sponsor_segment">>, <<"on_screen_element">>, <<"verbal_mention">>,
      <<"product_visual">>, <<"product_demo">>, <<"comparison_section">>,
      <<"call_to_action">>, <<"affiliate_disclosure">>, <<"giveaway_or_promo">>,
      <<"end_screen">> }

\* brand_analysis_models.OnScreenSubtype
OnScreenSubtype ==
    { <<"brand_name_text">>, <<"logo">>, <<"website">>, <<"qr_code">>,
      <<"coupon_code">>, <<"lower_third">>, <<"banner_overlay">>,
      <<"card_overlay">>, <<"watermark">> }

\* A required str field: pydantic takes a JSON string and nothing else.
ReqStr(j, k) == Has(j, k) /\ IsStr(j.v[k])

\* An Optional[str] field with default None: absent, null or a string.
OptStrOk(j, k) == Has(j, k) => (j.v[k] = JNull \/ IsStr(j.v[k]))
OptStr(j, k) == IF Has(j, k) /\ IsStr(j.v[k]) THEN j.v[k].v ELSE NoneText

\* A float field: a JSON number, or (pydantic's lax mode) a numeric string.
IsNumeric(j) == IsNum(j) \/ (IsStr(j) /\ Len(j.v) = 1 /\ j.v[1] \in DigitChars)
ToNum(j) == IF IsNum(j) THEN j.v ELSE IF j.v[1] = "1" THEN 1 ELSE 2

\* brand_analysis_models.Timestamps
TimestampsOk(j) == IsObj(j) /\ ReqStr(j, "start") /\ ReqStr(j, "end")
Timestamps(j) == [start |-> j.v["start"].v, end |-> j.v["end"].v]
DumpTimestamps(ts) == JObj([start |-> JStr(ts.start), end |-> JStr(ts.end)])

\* brand_analysis_models.Chapter
ChapterOk(j) ==
    /\ IsObj(j)
    /\ ReqStr(j, "id") /\ ReqStr(j, "title") /\ ReqStr(j, "summary")
    /\ Has(j, "timestamps") /\ TimestampsOk(j.v["timestamps"])
Chapter(j) ==
    [id |-> j.v["id"].v, title |-> j.v["title"].v, summary |-> j.v["summary"].v,
     timestamps |-> Timestamps(j.v["timestamps"])]
DumpChapter(c) ==
    JObj([id |-> JStr(c.id), title |-> JStr(c.title), summary |-> JStr(c.summary),
          timestamps |-> DumpTimestamps(c.timestamps)])

\* brand_analysis_models.BrandMention
BrandMentionOk(j) ==
    /\ IsObj(j)
    /\ ReqStr(j, "id")
    /\ ReqStr(j, "mention_type") /\ j.v["mention_type"].v \in MentionType
    /\ OptStrOk(j, "subtype")
    /\ (Has(j, "subtype") /\ IsStr(j.v["subtype"]) => j.v["subtype"].v \in OnScreenSubtype)
    /\ ReqStr(j, "description")
    /\ OptStrOk(j, "chapter_id")
    /\ Has(j, "timestamps") /\ TimestampsOk(j.v["timestamps"])
    /\ OptStrOk(j, "placement") /\ OptStrOk(j, "text") /\ OptStrOk(j, "spoken_quote")
    /\ Has(j, "confidence") /\ IsNumeric(j.v["confidence"])
BrandMention(j) ==
    [id |-> j.v["id"].v, mention_type |-> j.v["mention_type"].v,
     subtype |-> OptStr(j, "subtype"), description |-> j.v["description"].v,
     chapter_id |-> OptStr(j, "chapter_id"),
     timestamps |-> Timestamps(j.v["timestamps"]),
     placement |-> OptStr(j, "placement"), text |-> OptStr(j, "text"),
     spoken_quote |-> OptStr(j, "spoken_quote"),
     confidence |-> ToNum(j.v["confidence"])]
DumpBrandMention(m) ==
    JObj([id |-> JStr(m.id), mention_type |-> JStr(m.mention_type),
          subtype |-> DumpOptText(m.subtype), description |-> JStr(m.description),
          chapter_id |-> DumpOptText(m.chapter_id),
          timestamps |-> DumpTimestamps(m.timestamps),
          placement |-> DumpOptText(m.placement), text |-> DumpOptText(m.text),
          spoken_quote |-> DumpOptText(m.spoken_quote),
          confidence |-> JNum(m.confidence)])

\* A List[str] field.
StrListOk(j, k) ==
    /\ Has(j, k) /\ IsList(j.v[k])
    /\ \A i \in 1..Len(j.v[k].v) : IsStr(j.v[k].v[i])
StrList(j, k) == [i \in 1..Len(j.v[k].v) |-> j.v[k].v[i].v]
DumpStrList(l) == JList([i \in 1..Len(l) |-> JStr(l[i])])

\* brand_analysis_models.BrandAnalysisOutput: model_validate succeeds on j.
\* Keys the model does not declare are ignored.
BrandAnalysisOutputOk(j) ==
    /\ IsObj(j)
    /\ ReqStr(j, "summary")
    /\ StrListOk(j, "hashtags")
    /\ StrListOk(j, "topics")
    /\ Has(j, "chapters") /\ IsList(j.v["chapters"])
    /\ \A i \in 1..Len(j.v["chapters"].v) : ChapterOk(j.v["chapters"].v[i])
    /\ Has(j, "brand_mentions") /\ IsList(j.v["brand_mentions"])
    /\ \A i \in 1..Len(j.v["brand_mentions"].v) :
           BrandMentionOk(j.v["brand_mentions"].v[i])

\* brand_analysis_models.BrandAnalysisOutput: the model model_validate builds.
BrandAnalysisOutput(j) ==
    [summary |-> j.v["summary"].v,
     hashtags |-> StrList(j, "hashtags"),
     topics |-> StrList(j, "topics"),
     chapters |-> [i \in 1..Len(j.v["chapters"].v) |-> Chapter(j.v["chapters"].v[i])],
     brand_mentions |-> [i \in 1..Len(j.v["brand_mentions"].v) |->
                            BrandMention(j.v["brand_mentions"].v[i])]]

DumpOutput(d) ==
    JObj([summary |-> JStr(d.summary),
          hashtags |-> DumpStrList(d.hashtags),
          topics |-> DumpStrList(d.topics),
          chapters |-> JList([i \in 1..Len(d.chapters) |-> DumpChapter(d.chapters[i])]),
          brand_mentions |-> JList([i \in 1..Len(d.brand_mentions) |->
                                      DumpBrandMention(d.brand_mentions[i])])])

\* The payload analyze_video substitutes when nothing was parsed.
EmptyOutput ==
    [summary |-> <<>>, hashtags |-> <<>>, topics |-> <<>>, chapters |-> <<>>,
     brand_mentions |-> <<>>]

\* brand_analysis_models.ErrorDetail
ErrorDetail(code, message, details) ==
    [code |-> code, message |-> message, details |-> details]
ErrorDetailOk(j) ==
    /\ IsObj(j) /\ ReqStr(j, "code") /\ ReqStr(j, "message")
    /\ Has(j, "details") => (j.v["details"] = JNull \/ IsObj(j.v["details"]))
ErrorDetailOf(j) ==
    [code |-> j.v["code"].v, message |-> j.v["message"].v,
     details |-> IF Has(j, "details") /\ IsObj(j.v["details"])
                 THEN j.v["details"].v ELSE None]
DumpErrorDetail(e) ==
    JObj([code |-> JStr(e.code), message |-> JStr(e.message),
          details |-> IF e.details = None THEN JNull ELSE JObj(e.details)])

\* datetime <-> ISO-8601 text: the instant n is written "T<n>".
DigitText == <<"0", "1", "2", "3", "4", "5", "6", "7", "8", "9">>
IsoFormat(dt) == <<"T", DigitText[dt.at + 1]>>
IsIso(s) == Len(s) = 2 /\ s[1] = "T" /\ \E n \in 0..9 : DigitText[n + 1] = s[2]
FromIso(s) == [at |-> CHOOSE n \in 0..9 : DigitText[n + 1] = s[2]]

\* meta.source_url holds the URL the caller passed (None, or a URL record).
DumpOptUrl(u) == IF u = None THEN JNull ELSE JStr(u)

\* brand_analysis_models.BrandAnalysisMeta
BrandAnalysisMetaOk(j) ==
    /\ IsObj(j)
    /\ Has(j, "provider") => IsStr(j.v["provider"])
    /\ ReqStr(j, "brand") /\ ReqStr(j, "video_id")
    /\ OptStrOk(j, "index_id") /\ OptStrOk(j, "source_url")
    /\ ReqStr(j, "created_at") /\ IsIso(j.v["created_at"].v)
    /\ Has(j, "elapsed_ms") /\ IsNum(j.v["elapsed_ms"])
    /\ Has(j, "schema_version") => IsStr(j.v["schema_version"])
    /\ OptStrOk(j, "schema_url") /\ OptStrOk(j, "trace_id")
BrandAnalysisMeta(j) ==
    [provider |-> IF Has(j, "provider") THEN j.v["provider"].v ELSE <<"twelvelabs">>,
     brand |-> j.v["brand"].v,
     video_id |-> j.v["video_id"].v,
     index_id |-> OptStr(j, "index_id"),
     source_url |-> IF Has(j, "source_url") /\ IsStr(j.v["source_url"])
                    THEN j.v["source_url"].v ELSE None,
     created_at |-> FromIso(j.v["created_at"].v),
     elapsed_ms |-> j.v["elapsed_ms"].v,
     schema_version |-> IF Has(j, "schema_version") THEN j.v["schema_version"].v
                        ELSE <<"brand_analysis.v1">>,
     schema_url |-> OptStr(j, "schema_url"),
     trace_id |-> OptStr(j, "trace_id")]
DumpMeta(m) ==
    JObj([provider |-> JStr(m.provider), brand |-> JStr(m.brand),
          video_id |-> JStr(m.video_id), index_id |-> DumpOptText(m.index_id),
          source_url |-> DumpOptUrl(m.source_url),
          created_at |-> JStr(IsoFormat(m.created_at)),
          elapsed_ms |-> JNum(m.elapsed_ms),
          schema_version |-> JStr(m.schema_version),
          schema_url |-> DumpOptText(m.schema_url),
          trace_id |-> DumpOptText(m.trace_id)])

\* brand_analysis_models.BrandAnalysisResult: model_validate succeeds on j.
BrandAnalysisResultOk(j) ==
    /\ IsObj(j)
    /\ Has(j, "data") /\ BrandAnalysisOutputOk(j.v["data"])
    /\ Has(j, "meta") /\ BrandAnalysisMetaOk(j.v["meta"])
    /\ Has(j, "errors") =>
         /\ IsList(j.v["errors"])
         /\ \A i \in 1..Len(j.v["errors"].v) : ErrorDetailOk(j.v["errors"].v[i])

\* brand_analysis_models.BrandAnalysisResult: the model model_validate builds;
\* errors defaults to the empty list.
BrandAnalysisResult(j) ==
    [data |-> BrandAnalysisOutput(j.v["data"]),
     meta |-> BrandAnalysisMeta(j.v["meta"]),
     errors |-> IF Has(j, "errors")
                THEN [i \in 1..Len(j.v["errors"].v) |-> ErrorDetailOf(j.v["errors"].v[i])]
                ELSE <<>>]

\* A dump that leaves the errors out.
model_dump_without_errors(env) ==
    JObj([data |-> DumpOutput(env.data), meta |-> DumpMeta(env.meta)])

\* BrandAnalysisResult.model_dump(mode="json")
model_dump(env) ==
    JObj([data |-> DumpOutput(env.data),
          meta |-> DumpMeta(env.meta),
          errors |-> JList([i \in 1..Len(env.errors) |-> DumpErrorDetail(env.errors[i])])])

\* ------------------------------------------------------------------ analyze_video
\* Errors that do not tell a schema mismatch from text that is not JSON.
parse_errors_lumped(raw) ==
    IF IsText(raw.data)
    THEN IF LoadsRaises(raw.data) \/ ~BrandAnalysisOutputOk(raw.data.loads)
         THEN << ErrorDetail(<<"parse_error">>, <<"Response data was not valid JSON.">>,
                             [error |-> JStr(<<"pe">>)]) >>
         ELSE <<>>
    ELSE << ErrorDetail(<<"missing_data">>,
                        <<"Analyze response missing text 'data' field.">>, None) >>

\* The errors analyze_video records for the response `raw` (resp.model_dump()).
parse_errors(raw) ==
    IF IsText(raw.data)
    THEN IF LoadsRaises(raw.data)
         THEN << ErrorDetail(<<"parse_error">>, <<"Response data was not valid JSON.">>,
                             [error |-> JStr(<<"pe">>)]) >>
         ELSE IF ~BrandAnalysisOutputOk(raw.data.loads)
         THEN << ErrorDetail(<<"validation_error">>,
                             <<"Response did not match BrandAnalysisOutput schema.">>,
                             [error |-> JStr(<<"ve">>)]) >>
         ELSE <<>>
    ELSE << ErrorDetail(<<"missing_data">>,
                        <<"Analyze response missing text 'data' field.">>, None) >>

\* A payload that keeps the summary of a document the model rejects.
parsed_obj_partial(raw) ==
    IF IsText(raw.data) /\ ~LoadsRaises(raw.data) /\ ReqStr(raw.data.loads, "summary")
    THEN [EmptyOutput EXCEPT !.summary = raw.data.loads.v["summary"].v]
    ELSE EmptyOutput

\* The payload of the envelope: the validated model, or the empty one.
parsed_obj(raw) ==
    IF IsText(raw.data) /\ ~LoadsRaises(raw.data) /\ BrandAnalysisOutputOk(raw.data.loads)
    THEN BrandAnalysisOutput(raw.data.loads)
    ELSE EmptyOutput

\* An envelope whose meta does not record the brand.
analyze_video_brandless(video_id, brand, source_url, index_id, raw, now) ==
    [data |-> parsed_obj(raw),
     meta |-> [provider |-> <<"twelvelabs">>,
               brand |-> <<>>,
               video_id |-> video_id,
               index_id |-> index_id,
               source_url |-> source_url,
               created_at |-> [at |-> now],
               elapsed_ms |-> 0,
               schema_version |-> <<"brand_analysis.v1">>,
               schema_url |-> <<"/openapi.json">>,
               trace_id |-> IF TruthyText(raw.id) THEN raw.id ELSE NoneText],
     errors |-> parse_errors(raw)]

\* TwelveLabsBrandAnalyzer.analyze_video, from the response on: the envelope
\* built for the response `raw`, at time `now`, by an analyzer whose
\* config.index_id is index_id.
analyze_video(video_id, brand, source_url, index_id, raw, now) ==
    [data |-> parsed_obj(raw),
     meta |-> [provider |-> <<"twelvelabs">>,
               brand |-> brand,
               video_id |-> video_id,
               index_id |-> index_id,
               source_url |-> source_url,
               created_at |-> [at |-> now],
               elapsed_ms |-> 0,
               schema_version |-> <<"brand_analysis.v1">>,
               schema_url |-> <<"/openapi.json">>,
               trace_id |-> IF TruthyText(raw.id) THEN raw.id ELSE NoneText],
     errors |-> parse_errors(raw)]

\* ------------------------------------------------------------------ bounds
\* Number of analyze calls in a behaviour (any two may overlap).
NCalls == 2
\* Number of failures (exceptions, malformed responses) the environment injects.
MaxFaults == 1
\* TwelveLabsAnalyzeConfig.timeout_sec and poll_interval_sec, scaled down.
timeout_sec == 1
poll_interval_sec == 1

\* The wall clock can read MaxInstant + 1 instants when an envelope is stamped.
MaxInstant == 1
\* The longest format list of a stream-metadata response.
MaxEntries == 2
\* The longest brand drawn from every character.
MaxBrandLen == 3

Calls == 1..NCalls
Instants == 0..MaxInstant

\* ------------------------------------------------------------------ inputs
UrlYoutuBe == [netloc |-> HostYoutuBe, path |-> << <<"v", "1">> >>, query |-> <<>>]
UrlWatch ==
    [netloc |-> <<"w", "w", "w", ".">> \o HostYoutubeCom, path |-> <<SegWatch>>,
     query |-> << << <<"v">>, <<"v", "1">> >> >>]
UrlDirect ==
    [netloc |-> <<"c", "d", "n", ".", "i", "o">>, path |-> << <<"m", ".", "m", "p", "4">> >>,
     query |-> <<>>]

Request(brand, video_id, youtube_url, video_url) ==
    [brand |-> brand, video_id |-> video_id, youtube_url |-> youtube_url,
     video_url |-> video_url]

\* The analyze calls the model draws from.
Requests ==
    { Request(<<"A", "b">>, NoneText, None, None),
      Request(<<"A", "b">>, <<>>, EmptyUrl, EmptyUrl),
      Request(<<"A", "b">>, NoneText, UrlYoutuBe, None),
      Request(<<"a", "B">>, NoneText, UrlYoutuBe, None),
      Request(<<"A", "b">>, NoneText, None, UrlWatch),
      Request(<<"A", "b">>, NoneText, None, UrlDirect),
      Request(<<"A", "b">>, <<"x", "9">>, None, None),
      Request(<<"A", "b">>, <<"x", "9">>, UrlYoutuBe, None) }

\* Responses of the generation call (resp.model_dump()): data is None, text
\* that is not JSON, JSON of the wrong shape, or JSON the model accepts.
Ts == JObj([start |-> JStr(<<"00:00:00">>), end |-> JStr(<<"00:00:09">>)])
DocValid ==
    JObj([summary |-> JStr(<<"s">>),
          hashtags |-> JList(<<JStr(<<"#h">>)>>),
          topics |-> JList(<<>>),
          chapters |-> JList(<< JObj([id |-> JStr(<<"ch_001">>), title |-> JStr(<<"t">>),
                                      summary |-> JStr(<<"s">>), timestamps |-> Ts]) >>),
          brand_mentions |-> JList(<< JObj([id |-> JStr(<<"bm_001">>),
                                            mention_type |-> JStr(<<"verbal_mention">>),
                                            description |-> JStr(<<"d">>),
                                            chapter_id |-> JNull,
                                            timestamps |-> Ts,
                                            confidence |-> JStr(<<"1">>)]) >>),
          note |-> JStr(<<"extra">>)])
DocEmpty ==
    JObj([summary |-> JStr(<<>>), hashtags |-> JList(<<>>), topics |-> JList(<<>>),
          chapters |-> JList(<<>>), brand_mentions |-> JList(<<>>)])
DocBadMention ==
    JObj([summary |-> JStr(<<"s">>), hashtags |-> JList(<<>>), topics |-> JList(<<>>),
          chapters |-> JList(<<>>),
          brand_mentions |-> JList(<< JObj([id |-> JStr(<<"bm_001">>),
                                            mention_type |-> JStr(<<"brand_logo_placement">>),
                                            description |-> JStr(<<"d">>),
                                            timestamps |-> Ts,
                                            confidence |-> JNum(1)]) >>)])
DocMissingField ==
    JObj([summary |-> JStr(<<"s">>), hashtags |-> JList(<<>>),
          chapters |-> JList(<<>>), brand_mentions |-> JList(<<>>)])

Raw(id, data) == [id |-> id, data |-> data]
Responses ==
    { Raw(<<"g", "1">>, json_dumps(DocValid)),
      Raw(<<"g", "1">>, json_dumps(DocBadMention)),
      Raw(<<"g", "1">>, [t |-> "text", chars |-> <<"oops">>, loads |-> JsonError]),
      Raw(NoneText, None) }

\* More responses: the same kinds, with the documents and the values
\* json.loads can return that the model rejects, the empty text, a payload
\* that is a dict, and responses without an id.
Payloads ==
    Responses \cup
    { Raw(NoneText, json_dumps(DocValid)),
      Raw(NoneText, json_dumps(DocEmpty)),
      Raw(<<"g", "1">>, json_dumps(DocMissingField)),
      Raw(<<"g", "1">>, json_dumps(JNull)),
      Raw(<<"g", "1">>, json_dumps(JList(<<>>))),
      Raw(<<"g", "1">>, json_dumps(JStr(<<"s">>))),
      Raw(<<"g", "1">>, [t |-> "text", chars |-> <<>>, loads |-> JsonError]),
      Raw(<<"g", "1">>, DocValid) }

\* An analyzer's configuration: whether _init_redis found a live backend, the
\* download-fallback flag and the pre-configured index id.
Configs ==
    [redis : BOOLEAN, allow_youtube_download_fallback : BOOLEAN,
     index_id : {NoneText, <<"i", "0">>}]

\* The calls of the same YouTube video, which share cache keys and the
\* temporary file.
YoutubeRequests == {r \in Requests : Truthy(r.youtube_url) /\ ~TruthyText(r.video_id)}

\* ------------------------------------------------------------------ state
VARIABLES
    config,     \* the configuration every analyzer is built from
    callers,    \* what the callers do: the requests they send, and whether calls overlap
    pc,         \* pc[c]: where call c is
    req,        \* req[c]: the arguments of call c
    loc,        \* loc[c]: the local variables of call c (and of its analyzer)
    res,        \* res[c]: what call c returned or raised
    ops,        \* ops[c]: the cache and backend operations call c has made
    cache,      \* the key-value store: key -> text
    tempFiles,  \* the temporary directory: path -> the call whose download wrote it
    index,      \* the backend's index of the configured name: "absent" or "present"
    nTasks,     \* number of tasks the backend has created
    faults      \* failures injected so far

vars == <<config, callers, pc, req, loc, res, ops, cache, tempFiles, index, nTasks, faults>>

NoRequest == Request(<<>>, NoneText, None, None)
NoLocals ==
    [yt_id |-> NoneText, video_id |-> NoneText, index_id |-> NoneText,
     url |-> None, task_id |-> NoneText, temp_path |-> NoneText,
     status |-> "none", now |-> 0, deadline |-> 0, pending |-> None,
     get_failed |-> FALSE, raw |-> None, result |-> None, repeat |-> FALSE]
NoResult == [ret |-> None, exc |-> None]

Exc(type, msg) == [type |-> type, msg |-> msg]

\* Callers send any request, one call at a time, and the environment may
\* inject failures; or they send requests for one YouTube video, two calls at
\* a time, to a caching analyzer with the download fallback.
Init ==
    /\ config \in Configs
    /\ callers \in {[overlap |-> FALSE, menu |-> Requests]}
                   \cup (IF config.redis /\ config.allow_youtube_download_fallback
                         THEN {[overlap |-> TRUE, menu |-> YoutubeRequests]} ELSE {})
    /\ pc = [c \in Calls |-> "idle"]
    /\ req = [c \in Calls |-> NoRequest]
    /\ loc = [c \in Calls |-> NoLocals]
    /\ res = [c \in Calls |-> NoResult]
    /\ ops = [c \in Calls |-> {}]
    /\ cache = <<>>
    /\ tempFiles = <<>>
    /\ index \in {"absent", "present"}
    /\ nTasks = 0
    /\ faults = IF callers.overlap THEN MaxFaults ELSE 0

\* The environment may inject one more failure.
CanFail == faults < MaxFaults

\* r.get(key): the stored text, or None.
Get(key) == IF key \in DOMAIN cache THEN cache[key] ELSE None

\* Call c returns `value`.
Return(c, value) ==
    /\ pc' = [pc EXCEPT ![c] = "returned"]
    /\ res' = [res EXCEPT ![c] = [ret |-> value, exc |-> None]]

\* Call c raises `exc`.
Raise(c, exc) ==
    /\ pc' = [pc EXCEPT ![c] = "raised"]
    /\ res' = [res EXCEPT ![c] = [ret |-> None, exc |-> exc]]

Finished(c) == pc[c] \in {"returned", "raised"}

\* The caller has taken what call c returned or raised: the frame is gone.
Forget(c) ==
    /\ Finished(c)
    /\ pc' = [pc EXCEPT ![c] = "gone"]
    /\ req' = [req EXCEPT ![c] = NoRequest]
    /\ loc' = [loc EXCEPT ![c] = NoLocals]
    /\ res' = [res EXCEPT ![c] = NoResult]
    /\ ops' = [ops EXCEPT ![c] = {}]
    /\ UNCHANGED <<config, callers, cache, tempFiles, index, nTasks, faults>>

Goto(c, label) == pc' = [pc EXCEPT ![c] = label] /\ UNCHANGED res

Did(c, op) == ops' = [ops EXCEPT ![c] = @ \cup {op}]

\* Whether call c uses the cache: `if yt_id and self._redis`.
UsesCache(c) == TruthyText(loc[c].yt_id) /\ config.redis
UsesCacheWith(yt_id) == TruthyText(yt_id) /\ config.redis

\* Whether call c, made with arguments r, repeats a call that has returned and
\* whose caller still holds the result: same source URL, same brand. (Kept with
\* the locals of the call; the code does not read it.)
Repeats(c, r) ==
    \E d \in Calls \ {c} :
        /\ pc[d] = "returned"
        /\ req[d].brand = r.brand
        /\ req[d].youtube_url = r.youtube_url
        /\ req[d].video_url = r.video_url
        /\ req[d].video_id = r.video_id

\* analyze is called with arguments r: a new analyzer is built from the
\* configuration and the YouTube id is extracted.
Start(c, r) ==
    /\ pc[c] = "idle"
    /\ r \in callers.menu
    /\ \A d \in Calls : d < c => pc[d] # "idle"
    /\ callers.overlap \/ \A d \in Calls \ {c} : pc[d] \in {"idle", "gone"}
    /\ req' = [req EXCEPT ![c] = r]
    /\ loc' = [loc EXCEPT ![c] = [NoLocals EXCEPT !.yt_id = yt_id_of(r),
                                                  !.video_id = r.video_id,
                                                  !.index_id = config.index_id,
                                                  !.repeat = Repeats(c, r)]]
    /\ Goto(c, IF UsesCacheWith(yt_id_of(r)) THEN "read_analysis" ELSE "resolve")
    /\ UNCHANGED <<config, callers, ops, cache, tempFiles, index, nTasks, faults>>

\* _redis_get_json: the parsed value, or None when the read raises, the key
\* is absent or empty, or the text is not JSON.
redis_get_json(text) ==
    IF text = None \/ text.chars = <<>> \/ LoadsRaises(text) THEN None ELSE text.loads

\* An analyze that never serves what the cache holds.
cache_hit_never(cached) == None

\* `if cached:` followed by model_validate: the envelope served on a hit, or
\* None when the call goes on (a miss, a falsy value, a corrupt entry).
cache_hit(cached) ==
    IF cached = None THEN None
    ELSE IF cached.t \in {"null"} THEN None
    ELSE IF cached.t = "num" /\ cached.v = 0 THEN None
    ELSE IF cached.t \in {"list", "str"} /\ cached.v = <<>> THEN None
    ELSE IF BrandAnalysisResultOk(cached) THEN BrandAnalysisResult(cached)
    ELSE None

\* analyze, step 1: the cached analysis for (yt_id, brand) is returned if there
\* is one. A read that raises counts as a miss.
ReadAnalysis(c) ==
    /\ pc[c] = "read_analysis"
    /\ LET key == redis_key_analysis(redis_prefix, loc[c].yt_id, req[c].brand)
       IN  \E fail \in {FALSE} \cup {f \in {TRUE} : CanFail} :
             LET cached == IF fail THEN None ELSE redis_get_json(Get(key))
                 hit == cache_hit(cached)
             IN  /\ faults' = IF fail THEN faults + 1 ELSE faults
                 /\ loc' = [loc EXCEPT ![c].get_failed = fail]
                 /\ Did(c, "get_analysis")
                 /\ IF hit # None THEN Return(c, hit) ELSE Goto(c, "resolve")
    /\ UNCHANGED <<config, callers, req, cache, tempFiles, index, nTasks>>

\* A step that ingests whenever there is a URL.
resolve_step_by_url(video_id, url) ==
    IF ~Truthy(url) /\ TruthyText(video_id) THEN "generate"
    ELSE IF ~Truthy(url) THEN "raise"
    ELSE "ensure_index"

\* A step that does not check that there is a URL.
resolve_step_unchecked(video_id, url) ==
    IF TruthyText(video_id) THEN "generate" ELSE "ensure_index"

\* analyze, lines 406-410: with a video_id the analysis comes next; without
\* one a URL is needed, and the index is resolved only after that check.
resolve_step(video_id, url) ==
    IF TruthyText(video_id) THEN "generate"
    ELSE IF ~Truthy(url) THEN "raise"
    ELSE "ensure_index"

\* analyze, step 2 up to the call of _ensure_index, whose first line returns
\* a pre-configured index id.
Resolve(c) ==
    /\ pc[c] = "resolve"
    /\ LET url == IF Truthy(req[c].youtube_url) THEN req[c].youtube_url
                  ELSE req[c].video_url
           step == resolve_step(loc[c].video_id, url)
       IN  CASE step = "generate" -> Goto(c, "generate") /\ UNCHANGED loc
             [] step = "raise" ->
                  /\ Raise(c, Exc("ValueError", "Provide either video_id or youtube_url/video_url"))
                  /\ UNCHANGED loc
             [] OTHER ->
                  /\ loc' = [loc EXCEPT ![c].url = url]
                  /\ Goto(c, IF TruthyText(loc[c].index_id) THEN "read_mapping" ELSE "index_list")
    /\ UNCHANGED <<config, callers, req, ops, cache, tempFiles, index, nTasks, faults>>

DidAll(c, S) == ops' = [ops EXCEPT ![c] = @ \cup S]

\* Either no failure, or one more injected failure.
Outcomes(ok, failures) == ok \cup (IF CanFail THEN failures ELSE {})
Charge(outcome, failures) == faults' = IF outcome \in failures THEN faults + 1 ELSE faults

\* The id the backend gives the index it creates, and the ids of the n-th task
\* and of the video it indexes.
BackendIndexId == <<"i", "1">>
TaskId(n) == <<"t", DigitText[n + 1]>>
VideoIdOf(task_id) == <<"w", task_id[2]>>

\* _ensure_index, first listing: the index of the configured name, if any.
IndexList(c) ==
    /\ pc[c] = "index_list"
    /\ Did(c, "index_list")
    /\ \E o \in Outcomes({"ok"}, {"raise", "no_id"}) :
         /\ Charge(o, {"raise", "no_id"})
         /\ CASE o = "raise" ->
                   Raise(c, Exc("BackendError", "indexes.list")) /\ UNCHANGED loc
              [] o = "no_id" /\ index = "present" ->
                   /\ Raise(c, Exc("RuntimeError", "Unable to resolve index id from SDK response."))
                   /\ UNCHANGED loc
              [] o = "ok" /\ index = "present" ->
                   /\ loc' = [loc EXCEPT ![c].index_id = BackendIndexId]
                   /\ Goto(c, "read_mapping")
              [] OTHER -> Goto(c, "index_create") /\ UNCHANGED loc
    /\ UNCHANGED <<config, callers, req, cache, tempFiles, index, nTasks>>

\* _ensure_index, creation: any exception, the missing id included, leads to
\* the second listing.
IndexCreate(c) ==
    /\ pc[c] = "index_create"
    /\ Did(c, "index_create")
    /\ \E o \in Outcomes({"ok"}, {"raise", "no_id"}) :
         /\ Charge(o, {"raise", "no_id"})
         /\ CASE index = "present" \/ o = "raise" ->
                   /\ loc' = [loc EXCEPT ![c].pending = Exc("BackendError", "indexes.create")]
                   /\ Goto(c, "index_relist")
                   /\ UNCHANGED index
              [] index = "absent" /\ o = "no_id" ->
                   /\ index' = "present"
                   /\ loc' = [loc EXCEPT ![c].pending =
                                 Exc("RuntimeError", "Index creation succeeded but id missing.")]
                   /\ Goto(c, "index_relist")
              [] OTHER ->
                   /\ index' = "present"
                   /\ loc' = [loc EXCEPT ![c].index_id = BackendIndexId]
                   /\ Goto(c, "read_mapping")
    /\ UNCHANGED <<config, callers, req, cache, tempFiles, nTasks>>

\* A handler of the failed creation that raises its exception again
\* whatever the listing holds.
relist_step_reraise(found) == "raise"

\* _ensure_index, lines 490-496: an index of the name with an id is
\* returned; without one the bare `raise` raises the creation's exception.
relist_step(found) == IF found THEN "return" ELSE "raise"

\* _ensure_index, second listing after a failed creation: the creation's
\* exception is raised again unless an index with an id is found.
IndexRelist(c) ==
    /\ pc[c] = "index_relist"
    /\ Did(c, "index_list")
    /\ \E o \in Outcomes({"ok"}, {"raise", "no_id"}) :
         /\ Charge(o, {"raise", "no_id"})
         /\ CASE o = "raise" ->
                   Raise(c, Exc("BackendError", "indexes.list")) /\ UNCHANGED loc
              [] relist_step(o = "ok" /\ index = "present") = "return" ->
                   /\ loc' = [loc EXCEPT ![c].index_id = BackendIndexId, ![c].pending = None]
                   /\ Goto(c, "read_mapping")
              [] OTHER -> Raise(c, loc[c].pending) /\ UNCHANGED loc
    /\ UNCHANGED <<config, callers, req, cache, tempFiles, index, nTasks>>

\* A read of the mapping that finds nothing.
redis_get_text_miss(text) == NoneText

\* _redis_get_text: the stored characters, or None when the read raises or
\* the key is absent.
redis_get_text(text) == IF text = None THEN NoneText ELSE text.chars

\* analyze, "Reuse mapping": a mapped video id skips the ingest.
ReadMapping(c) ==
    /\ pc[c] = "read_mapping"
    /\ IF UsesCache(c)
       THEN \E o \in Outcomes({"ok"}, {"raise"}) :
              LET key == redis_key_video_map(redis_prefix, loc[c].yt_id)
                  mapped == IF o = "raise" THEN NoneText ELSE redis_get_text(Get(key))
              IN  /\ Charge(o, {"raise"})
                  /\ Did(c, "get_mapping")
                  /\ IF TruthyText(mapped)
                     THEN /\ loc' = [loc EXCEPT ![c].video_id = mapped,
                                                ![c].get_failed = FALSE]
                          /\ Goto(c, "generate")
                     ELSE /\ loc' = [loc EXCEPT ![c].get_failed = (o = "raise")]
                          /\ Goto(c, "create_url")
       ELSE /\ Goto(c, "create_url")
            /\ UNCHANGED <<loc, ops, faults>>
    /\ UNCHANGED <<config, callers, req, cache, tempFiles, index, nTasks>>

\* _ingest_from_url, lines 604-608: a task without an id is an error;
\* otherwise _wait_for_task starts and sets its deadline.
AfterCreate(c, task_id, locals) ==
    IF TruthyText(task_id)
    THEN /\ loc' = [loc EXCEPT ![c] = [locals EXCEPT !.task_id = task_id,
                                                     !.deadline = locals.now + timeout_sec]]
         /\ Goto(c, "wait_task")
    ELSE /\ loc' = [loc EXCEPT ![c] = locals]
         /\ Raise(c, Exc("RuntimeError", "Task creation response missing id."))

\* A fallback that the flag alone allows, whatever the URL.
fallback_by_flag(url) == config.allow_youtube_download_fallback

\* Whether the fallback of _ingest_from_url applies to the URL.
fallback_allowed(url) == is_youtube_url(url) /\ config.allow_youtube_download_fallback

\* A handler that falls back whenever the fallback is allowed, whether or not
\* the creation by URL raised.
url_create_step_eager(raised, allowed) ==
    IF allowed THEN "download"
    ELSE IF raised THEN "raise"
    ELSE "after_create"

\* _ingest_from_url, lines 517-603: the `except` branch is taken only when
\* tasks.create(video_url=...) raised; it falls back if allowed and raises
\* the exception again otherwise.
url_create_step(raised, allowed) ==
    IF ~raised THEN "after_create"
    ELSE IF allowed THEN "download"
    ELSE "raise"

\* _ingest_from_url up to the outcome of tasks.create(video_url=...): the
\* resolver is asked for a direct URL of a YouTube URL, then the task is
\* created by URL; a rejection leads to the download fallback if allowed.
CreateByUrl(c) ==
    /\ pc[c] = "create_url"
    /\ DidAll(c, (IF is_youtube_url(loc[c].url) THEN {"resolve"} ELSE {}) \cup {"task_create_url"})
    /\ \E o \in {"ok", "reject"} \cup Outcomes({}, {"no_id"}) :
         LET step == url_create_step(o = "reject", fallback_allowed(loc[c].url))
             task_id == IF o = "ok" THEN TaskId(nTasks + 1) ELSE NoneText
         IN  /\ Charge(o, {"no_id"})
             /\ nTasks' = IF o = "reject" THEN nTasks ELSE nTasks + 1
             /\ CASE step = "after_create" -> AfterCreate(c, task_id, loc[c])
                  [] step = "download" ->
                       /\ loc' = [loc EXCEPT ![c].pending = Exc("BackendError", "tasks.create"),
                                             ![c].task_id = task_id]
                       /\ Goto(c, "download")
                  [] OTHER ->
                       /\ UNCHANGED loc
                       /\ Raise(c, Exc("BackendError", "tasks.create"))
    /\ UNCHANGED <<config, callers, req, cache, tempFiles, index>>

\* The path _download_youtube_to_temp writes: the temporary directory, the
\* fixed word "twelvelabs-" and the video's id.
temp_path_of(url) == <<"t", "w", "-">> \o extract_youtube_id(url)

\* _download_youtube_to_temp: the video is written under its path (a file
\* already there is kept or overwritten), or nothing is returned.
Download(c) ==
    /\ pc[c] = "download"
    /\ Did(c, "download")
    /\ LET path == temp_path_of(loc[c].url)
       IN  \E o \in {"written", "kept", "none"} :
             CASE o = "none" ->
                    /\ Raise(c, Exc("RuntimeError",
                                    "Direct YouTube URL not accepted and yt_dlp fallback failed."))
                    /\ UNCHANGED <<loc, tempFiles>>
               [] o = "kept" /\ path \in DOMAIN tempFiles ->
                    /\ loc' = [loc EXCEPT ![c].temp_path = path]
                    /\ Goto(c, "open_file")
                    /\ UNCHANGED tempFiles
               [] OTHER ->
                    /\ tempFiles' = (path :> c) @@ tempFiles
                    /\ loc' = [loc EXCEPT ![c].temp_path = path]
                    /\ Goto(c, "open_file")
    /\ UNCHANGED <<config, callers, req, cache, index, nTasks, faults>>

\* open(temp_path, "rb"): raises when the file is not there.
OpenFile(c) ==
    /\ pc[c] = "open_file"
    /\ IF loc[c].temp_path \in DOMAIN tempFiles
       THEN Goto(c, "upload") /\ UNCHANGED loc
       ELSE /\ loc' = [loc EXCEPT ![c].pending = Exc("FileNotFoundError", "open")]
            /\ Goto(c, "remove_temp")
    /\ UNCHANGED <<config, callers, req, ops, cache, tempFiles, index, nTasks, faults>>

\* tasks.create(video_file=fh): the upload ends with a task, or raises.
Upload(c) ==
    /\ pc[c] = "upload"
    /\ Did(c, "task_create_file")
    /\ \E o \in Outcomes({"ok"}, {"raise", "no_id"}) :
         /\ Charge(o, {"raise", "no_id"})
         /\ CASE o = "raise" ->
                   /\ loc' = [loc EXCEPT ![c].pending = Exc("BackendError", "tasks.create")]
                   /\ UNCHANGED nTasks
              [] o = "no_id" ->
                   /\ loc' = [loc EXCEPT ![c].pending = None, ![c].task_id = NoneText]
                   /\ nTasks' = nTasks + 1
              [] OTHER ->
                   /\ loc' = [loc EXCEPT ![c].pending = None, ![c].task_id = TaskId(nTasks + 1)]
                   /\ nTasks' = nTasks + 1
    /\ Goto(c, "remove_temp")
    /\ UNCHANGED <<config, callers, req, cache, tempFiles, index>>

\* A removal that leaves the directory as it was.
os_remove_skipped(files, path) == files

\* os.remove(path) on a file the process may delete; removing a file that is
\* not there raises, and the `except Exception: pass` around it swallows that.
os_remove(files, path) == [p \in DOMAIN files \ {path} |-> files[p]]

\* The `finally` of the fallback: the temporary file is removed, then the
\* exception of the upload, if any, goes on; otherwise the task is waited for.
RemoveTemp(c) ==
    /\ pc[c] = "remove_temp"
    /\ tempFiles' = os_remove(tempFiles, loc[c].temp_path)
    /\ IF loc[c].pending # None
       THEN Raise(c, loc[c].pending) /\ UNCHANGED loc
       ELSE AfterCreate(c, loc[c].task_id, loc[c])
    /\ UNCHANGED <<config, callers, req, ops, cache, index, nTasks, faults>>

\* A clock that is set back at every other reading.
time_sleep_set_back(now) == IF now = 0 THEN poll_interval_sec ELSE 0

\* time.sleep(poll_interval_sec): what the clock reads in the next iteration.
time_sleep(now) == now + poll_interval_sec

\* _wait_for_task, one iteration with the clock first: the deadline is looked
\* at before the status.
wait_for_task_clock_first(status, now, deadline) ==
    IF now > deadline THEN "timeout"
    ELSE IF status \in {"ready", "failed"} THEN "return"
    ELSE "sleep"

\* _wait_for_task, one iteration after the retrieve: the status is looked at
\* before the clock.
wait_for_task(status, now, deadline) ==
    IF status \in {"ready", "failed"} THEN "return"
    ELSE IF now > deadline THEN "timeout"
    ELSE "sleep"

\* An analyze that goes on as soon as the ingest has returned.
after_ingest_no_wait(uses_cache) == IF uses_cache THEN "store_mapping" ELSE "generate"

\* analyze, line 421: after _ingest_from_url has returned the video id, the
\* video is waited for until it can be retrieved.
after_ingest(uses_cache) == "wait_ready"

\* A reading of the task that does not look at its status.
task_result_unchecked(status, has_video_id) ==
    IF ~has_video_id THEN "no_video_id" ELSE "ok"

\* _ingest_from_url, lines 609-616: a task that is not ready is an indexing
\* failure, a ready task without a video id is an error.
task_result(status, has_video_id) ==
    IF status # "ready" THEN "failed"
    ELSE IF ~has_video_id THEN "no_video_id"
    ELSE "ok"

\* _wait_for_task, one iteration, and what _ingest_from_url does with the
\* response it returns.
WaitTask(c) ==
    /\ pc[c] = "wait_task"
    /\ Did(c, "task_retrieve")
    /\ \E o \in {"pending", "ready", "failed"} \cup Outcomes({}, {"raise", "no_video_id"}) :
         LET status == IF o = "no_video_id" THEN "ready" ELSE o
             step == IF o = "raise" THEN "raise"
                     ELSE wait_for_task(status, loc[c].now, loc[c].deadline)
         IN  /\ Charge(o, {"raise", "no_video_id"})
             /\ CASE step = "raise" ->
                       /\ loc' = [loc EXCEPT ![c].status = "none"]
                       /\ Raise(c, Exc("BackendError", "tasks.retrieve"))
                  [] step = "timeout" ->
                       /\ loc' = [loc EXCEPT ![c].status = status]
                       /\ Raise(c, Exc("TimeoutError", "Timed out waiting for indexing task."))
                  [] step = "sleep" ->
                       /\ loc' = [loc EXCEPT ![c].status = status,
                                             ![c].now = time_sleep(@)]
                       /\ UNCHANGED <<pc, res>>
                  [] step = "return" /\ task_result(status, o # "no_video_id") = "failed" ->
                       /\ loc' = [loc EXCEPT ![c].status = status]
                       /\ Raise(c, Exc("RuntimeError", "Indexing failed"))
                  [] step = "return" /\ task_result(status, o # "no_video_id") = "no_video_id" ->
                       /\ loc' = [loc EXCEPT ![c].status = status]
                       /\ Raise(c, Exc("RuntimeError",
                                       "Indexing completed but video_id missing in response."))
                  [] OTHER ->
                       /\ loc' = [loc EXCEPT ![c].status = status,
                                             ![c].video_id = VideoIdOf(loc[c].task_id),
                                             ![c].deadline = loc[c].now + timeout_sec]
                       /\ Goto(c, after_ingest(UsesCache(c)))
    /\ UNCHANGED <<config, callers, req, cache, tempFiles, index, nTasks>>

\* _wait_for_indexing_ready, one iteration: a retrieve that raises is retried
\* until the deadline.
WaitReady(c) ==
    /\ pc[c] = "wait_ready"
    /\ Did(c, "video_retrieve")
    /\ \E o \in {"ok", "raise"} :
         CASE o = "ok" ->
                /\ Goto(c, IF UsesCache(c) THEN "store_mapping" ELSE "generate")
                /\ loc' = [loc EXCEPT ![c].now = 0, ![c].deadline = 0]
           [] OTHER ->
                IF loc[c].now > loc[c].deadline
                THEN /\ Raise(c, Exc("TimeoutError", "Timed out waiting for video to be retrievable."))
                     /\ UNCHANGED loc
                ELSE /\ loc' = [loc EXCEPT ![c].now = time_sleep(@)]
                     /\ UNCHANGED <<pc, res>>
    /\ UNCHANGED <<config, callers, req, cache, tempFiles, index, nTasks, faults>>

\* r.set(key, text): the store after the write.
Set(key, text) == (key :> text) @@ cache

\* analyze, "Store mapping": _redis_set_text; a write that raises is reported
\* and the call goes on.
StoreMapping(c) ==
    /\ pc[c] = "store_mapping"
    /\ Did(c, "set_mapping")
    /\ \E o \in Outcomes({"ok"}, {"raise"}) :
         /\ Charge(o, {"raise"})
         /\ cache' = IF o = "ok"
                     THEN Set(redis_key_video_map(redis_prefix, loc[c].yt_id),
                              PlainText(loc[c].video_id))
                     ELSE cache
    /\ Goto(c, "generate")
    /\ UNCHANGED <<config, callers, req, loc, tempFiles, index, nTasks>>

\* The source_url analyze passes to analyze_video: youtube_url or video_url.
source_url_of(r) == IF Truthy(r.youtube_url) THEN r.youtube_url ELSE r.video_url

\* analyze, step 3: analyze_video calls the generation endpoint and wraps the
\* response, one of `responses`; an exception of the call goes to the caller.
analyze_step(c, responses) ==
    /\ Did(c, "generate")
    /\ \/ /\ CanFail
          /\ faults' = faults + 1
          /\ Raise(c, Exc("BackendError", "analyze"))
          /\ UNCHANGED loc
       \/ \E raw \in responses, at \in Instants :
            LET result == analyze_video(loc[c].video_id, req[c].brand, source_url_of(req[c]),
                                        loc[c].index_id, raw, at)
            IN  /\ UNCHANGED faults
                /\ loc' = [loc EXCEPT ![c].raw = raw, ![c].result = result]
                /\ IF UsesCache(c) THEN Goto(c, "store_analysis") ELSE Return(c, result)
    /\ UNCHANGED <<config, callers, req, cache, tempFiles, index, nTasks>>

Generate(c) ==
    /\ pc[c] = "generate"
    /\ analyze_step(c, Responses)

\* _redis_set_json of the envelope: json.dumps of model_dump(mode="json").
redis_set_json(result) == json_dumps(model_dump(result))

\* analyze, step 4: the envelope is written under the analysis key, whatever
\* its errors, and returned.
StoreAnalysis(c) ==
    /\ pc[c] = "store_analysis"
    /\ Did(c, "set_analysis")
    /\ \E o \in Outcomes({"ok"}, {"raise"}) :
         /\ Charge(o, {"raise"})
         /\ cache' = IF o = "ok"
                     THEN Set(redis_key_analysis(redis_prefix, loc[c].yt_id, req[c].brand),
                              redis_set_json(loc[c].result))
                     ELSE cache
    /\ Return(c, loc[c].result)
    /\ UNCHANGED <<config, callers, req, loc, tempFiles, index, nTasks>>

Next ==
    \E c \in Calls :
        \/ \E r \in Requests : Start(c, r)
        \/ ReadAnalysis(c)
        \/ Resolve(c)
        \/ IndexList(c)
        \/ IndexCreate(c)
        \/ IndexRelist(c)
        \/ ReadMapping(c)
        \/ CreateByUrl(c)
        \/ Download(c)
        \/ OpenFile(c)
        \/ Upload(c)
        \/ RemoveTemp(c)
        \/ WaitTask(c)
        \/ WaitReady(c)
        \/ StoreMapping(c)
        \/ Generate(c)
        \/ StoreAnalysis(c)
        \/ Forget(c)

Spec == Init /\ [][Next]_vars

\* ------------------------------------------------------------------ _init_redis
\* A probe that writes under the mapping key of a video.
probe_key_of_video == redis_key_video_map(redis_prefix, <<"v", "1">>)

\* The sentinel key of the liveness probe, and the value written under it.
probe_key == <<"_", "_", "b", "a", "_", "p", "r", "o", "b", "e", "_", "_">>
probe_value == <<"1">>

\* What a candidate client does when probed: whether it can be built (its
\* package imports), what its set does (stores and reports success, reports
\* failure, raises), what its get does (returns what is stored, returns
\* something else, raises).
Unbuilt == [present |-> FALSE, set |-> "raises", get |-> "raises"]
SdkClients ==
    {Unbuilt} \cup [present : {TRUE}, set : {"ok", "refused", "raises"},
                    get : {"ok", "other", "raises"}]
\* The REST client's _cmd catches every exception.
RestClients ==
    {Unbuilt} \cup [present : {TRUE}, set : {"ok", "refused"}, get : {"ok", "other"}]
PingOutcomes == {"import_fails", "ping_fails", "ping_ok"}

\* The environment _init_redis runs in: whether UPSTASH_REDIS_REST_URL and
\* UPSTASH_REDIS_REST_TOKEN are set, and what the three candidates do.
ProbeEnvs ==
    [upstash : BOOLEAN, sdk : SdkClients, rest : RestClients, redis_py : PingOutcomes]

\* client.set(probe_key, "1") on store: the store afterwards.
probe_set(cand, store) ==
    IF cand.set = "ok" THEN (probe_key :> PlainText(probe_value)) @@ store ELSE store

\* client.get(probe_key) == "1" on store (FALSE when the get raises).
probe_get(cand, store) ==
    /\ cand.get = "ok"
    /\ probe_key \in DOMAIN store
    /\ store[probe_key].chars = probe_value

\* An _init_redis that takes the redis-py client without a ping.
init_redis_unpinged(env, store) ==
    [client |-> "redis_py", store |-> store, written |-> {}, read_back |-> {}]

\* _init_redis: the client selected ("none" for None), the store after the
\* probes, and the candidates whose probe write succeeded and whose probe
\* read returned the sentinel value. The SDK client is probed with set then
\* get, the result of set ignored unless it raises; the REST client, built
\* in the same try block and so only once the SDK client was built, with
\* `set(...) and get(...) == "1"`; the redis-py client with ping alone.
init_redis(env, store) ==
    LET sdkTried == env.upstash /\ env.sdk.present
        s1 == IF sdkTried THEN probe_set(env.sdk, store) ELSE store
        sdkRead == sdkTried /\ env.sdk.set # "raises" /\ probe_get(env.sdk, s1)
        restTried == sdkTried /\ ~sdkRead /\ env.rest.present
        s2 == IF restTried THEN probe_set(env.rest, s1) ELSE s1
        restRead == restTried /\ env.rest.set = "ok" /\ probe_get(env.rest, s2)
    IN  [client |-> IF sdkRead THEN "sdk"
                    ELSE IF restRead THEN "rest"
                    ELSE IF env.redis_py = "ping_ok" THEN "redis_py"
                    ELSE "none",
         store |-> s2,
         written |-> (IF sdkTried /\ env.sdk.set = "ok" THEN {"sdk"} ELSE {})
                     \cup (IF restTried /\ env.rest.set = "ok" THEN {"rest"} ELSE {}),
         read_back |-> (IF sdkRead THEN {"sdk"} ELSE {})
                       \cup (IF restRead THEN {"rest"} ELSE {})]

\* The calls made to the analyzers built here: one YouTube video, one brand.
ProbeRequests == { Request(<<"A", "b">>, NoneText, UrlYoutuBe, None) }

\* No analyzer is built yet: nobody can call analyze. Every client talks to
\* the one store.
ProbeInit ==
    /\ config \in {cfg \in Configs : ~cfg.redis}
    /\ callers = [overlap |-> FALSE, menu |-> {}, probe |-> None]
    /\ pc = [c \in Calls |-> "idle"]
    /\ req = [c \in Calls |-> NoRequest]
    /\ loc = [c \in Calls |-> NoLocals]
    /\ res = [c \in Calls |-> NoResult]
    /\ ops = [c \in Calls |-> {}]
    /\ cache = <<>>
    /\ tempFiles = <<>>
    /\ index \in {"absent", "present"}
    /\ nTasks = 0
    /\ faults = 0

\* TwelveLabsBrandAnalyzer.__init__ (by from_env, as the endpoints do before
\* each request): _init_redis probes the candidates and the analyzer keeps
\* the client it returns. It runs between requests; the environment it met
\* and the store it found are remembered until the analyzer is used.
InitRedis ==
    /\ callers.probe = None
    /\ \A c \in Calls : pc[c] \in {"idle", "gone"}
    /\ \E env \in ProbeEnvs :
         LET r == init_redis(env, cache)
         IN  /\ cache' = r.store
             /\ config' = [config EXCEPT !.redis = (r.client # "none")]
             /\ callers' = [callers EXCEPT !.menu = {},
                                           !.probe = [env |-> env,
                                                      before |-> cache,
                                                      client |-> r.client,
                                                      written |-> r.written,
                                                      read_back |-> r.read_back]]
    /\ UNCHANGED <<pc, req, loc, res, ops, tempFiles, index, nTasks, faults>>

\* The analyzer is handed to its callers.
Serve ==
    /\ callers.probe # None
    /\ callers' = [callers EXCEPT !.menu = ProbeRequests, !.probe = None]
    /\ UNCHANGED <<config, pc, req, loc, res, ops, cache, tempFiles, index, nTasks, faults>>

ProbeNext == InitRedis \/ Serve \/ Next

ProbeSpec == ProbeInit /\ [][ProbeNext]_vars

\* ------------------------------------------------------------------ envelopes
\* The calls that name an indexed video and its YouTube URL: they go from the
\* cache miss straight to the generation call, and cache its envelope.
EnvelopeRequests ==
    { Request(b, <<"x", "9">>, UrlYoutuBe, None) : b \in {<<"A", "b">>, <<"a", "B">>} }
    \cup { Request(<<"A", "b">>, <<"x", "9">>, EmptyUrl, UrlWatch) }

\* Overlapping calls of EnvelopeRequests to a caching analyzer, without
\* injected failures.
EnvelopeInit ==
    /\ config \in {cfg \in Configs : cfg.redis}
    /\ callers = [overlap |-> TRUE, menu |-> EnvelopeRequests]
    /\ pc = [c \in Calls |-> "idle"]
    /\ req = [c \in Calls |-> NoRequest]
    /\ loc = [c \in Calls |-> NoLocals]
    /\ res = [c \in Calls |-> NoResult]
    /\ ops = [c \in Calls |-> {}]
    /\ cache = <<>>
    /\ tempFiles = <<>>
    /\ index = "present"
    /\ nTasks = 0
    /\ faults = MaxFaults

\* analyze_video on any of Payloads.
GenerateAny(c) ==
    /\ pc[c] = "generate"
    /\ analyze_step(c, Payloads)

EnvelopeNext ==
    \E c \in Calls :
        \/ \E r \in EnvelopeRequests : Start(c, r)
        \/ ReadAnalysis(c)
        \/ Resolve(c)
        \/ GenerateAny(c)
        \/ StoreAnalysis(c)
        \/ Forget(c)

EnvelopeSpec == EnvelopeInit /\ [][EnvelopeNext]_vars

\* ------------------------------------------------------------------ repeated calls
\* The calls that name a source by URL alone: a YouTube URL, a direct media URL.
RepeatRequests ==
    { Request(<<"A", "b">>, NoneText, UrlYoutuBe, None),
      Request(<<"A", "b">>, NoneText, None, UrlDirect) }

\* Calls of RepeatRequests to a caching analyzer, a call possibly made while
\* the result of the other is still held; no injected failures.
RepeatInit ==
    /\ config \in {cfg \in Configs : cfg.redis}
    /\ callers = [overlap |-> TRUE, menu |-> RepeatRequests]
    /\ pc = [c \in Calls |-> "idle"]
    /\ req = [c \in Calls |-> NoRequest]
    /\ loc = [c \in Calls |-> NoLocals]
    /\ res = [c \in Calls |-> NoResult]
    /\ ops = [c \in Calls |-> {}]
    /\ cache = <<>>
    /\ tempFiles = <<>>
    /\ index \in {"absent", "present"}
    /\ nTasks = 0
    /\ faults = MaxFaults

RepeatSpec == RepeatInit /\ [][Next]_vars

\* ------------------------------------------------------------------ yt_rapidapi_dl
\* dict.get(k): the value under k, or None.
dict_get(j, k) == IF Has(j, k) THEN j.v[k] ELSE JNull

\* Python truthiness of a JSON value.
py_truthy(j) ==
    CASE j.t = "null" -> FALSE
      [] j.t = "num" -> j.v # 0
      [] j.t = "obj" -> DOMAIN j.v # {}
      [] OTHER -> j.v # <<>>

\* `a or b`
py_or(a, b) == IF py_truthy(a) THEN a ELSE b

\* str(n) of a number below 100.
IntText(n) ==
    IF n < 10 THEN <<DigitText[n + 1]>>
    ELSE <<DigitText[(n \div 10) + 1], DigitText[(n % 10) + 1]>>

\* str(v) of an itag that is not None: a string is itself, a number its digits.
py_str(j) == IF IsStr(j) THEN j.v ELSE IF IsNum(j) THEN IntText(j.v) ELSE <<"?">>

\* `sub in s` for two strings.
IsSubstring(sub, s) ==
    \E i \in 1..(Len(s) - Len(sub) + 1) : SubSeq(s, i, i + Len(sub) - 1) = sub

VideoMp4 == <<"v", "i", "d", "e", "o", "/", "m", "p", "4">>
Itag22 == <<"2", "2">>
Itag18 == <<"1", "8">>

\* `"video/mp4" in mime` raises TypeError when mime is a number.
in_raises(mime) == IsNum(mime)

\* `"video/mp4" in mime` when it does not raise: a substring of a string, an
\* item of a list, a key of a dict.
video_mp4_in(mime) ==
    CASE IsStr(mime) -> IsSubstring(VideoMp4, mime.v)
      [] IsList(mime) -> \E i \in 1..Len(mime.v) : mime.v[i] = JStr(VideoMp4)
      [] OTHER -> FALSE

NoPick == [raised |-> FALSE, best22 |-> JNull, best18 |-> JNull, best_mp4 |-> JNull]

\* One pass of the loop of pick_from_list over the entry `it`.
pick_entry(acc, it) ==
    IF acc.raised \/ ~IsObj(it) THEN acc
    ELSE LET url == dict_get(it, "url")
             mime == py_or(dict_get(it, "mime"), dict_get(it, "type"))
             itag == IF dict_get(it, "itag") # JNull
                     THEN py_str(dict_get(it, "itag")) ELSE NoneText
             tiered == IF itag = Itag22 THEN [acc EXCEPT !.best22 = url]
                       ELSE IF itag = Itag18 THEN [acc EXCEPT !.best18 = url]
                       ELSE acc
         IN  IF ~py_truthy(url) THEN acc
             ELSE IF py_truthy(mime) /\ in_raises(mime) THEN [tiered EXCEPT !.raised = TRUE]
             ELSE IF py_truthy(mime) /\ video_mp4_in(mime) /\ acc.best_mp4 = JNull
             THEN [tiered EXCEPT !.best_mp4 = url]
             ELSE tiered

RECURSIVE pick_loop(_, _)
pick_loop(acc, items) ==
    IF items = <<>> THEN acc ELSE pick_loop(pick_entry(acc, Head(items)), Tail(items))

\* What a call gives: a value (None is JNull), or an exception.
Gives(value) == [raised |-> FALSE, value |-> value]
Throws(type) == [raised |-> TRUE, value |-> JNull, type |-> type]

\* pick_from_list: `best22 or best18 or best_mp4` of a list, None of
\* anything else.
pick_from_list(items) ==
    IF ~IsList(items) THEN Gives(JNull)
    ELSE LET acc == pick_loop(NoPick, items.v)
         IN  IF acc.raised THEN Throws("TypeError")
             ELSE Gives(py_or(acc.best22, py_or(acc.best18, acc.best_mp4)))

\* The node at `path` in data, or Absent.
Absent == [t |-> "absent"]
RECURSIVE node_at(_, _)
node_at(node, path) ==
    IF path = <<>> THEN node
    ELSE IF Has(node, Head(path)) THEN node_at(node.v[Head(path)], Tail(path))
    ELSE Absent

\* The lists searched, in order: by yt_rapidapi_dl._pick_progressive_mp4 and
\* by twelvelabs_summary._resolve_youtube_via_rapidapi.
FormatPaths == << <<"formats">>, <<"streamingData", "formats">> >>
FormatPathsSummary ==
    FormatPaths \o << <<"streamingData", "adaptiveFormats">>, <<"adaptiveFormats">> >>

\* The loop over the paths: the first list that gives a URL decides.
RECURSIVE pick_over(_, _)
pick_over(data, paths) ==
    IF paths = <<>> THEN Gives(JNull)
    ELSE LET node == node_at(data, Head(paths))
             got == IF node = Absent THEN Gives(JNull) ELSE pick_from_list(node)
         IN  IF got.raised \/ py_truthy(got.value) THEN got
             ELSE pick_over(data, Tail(paths))

\* _pick_progressive_mp4
pick_progressive_mp4(data) == pick_over(data, FormatPaths)

\* What requests.get and resp.json() do: no API key is configured, the request
\* raises, the status is not 200, the body is not JSON, or a JSON value comes.
HttpOutcomes == {"no_api_key", "transport_error", "status_not_200", "body_not_json", "ok"}

\* resolve_youtube_direct_url: None without a key and for whatever the try
\* block catches; the pick is made outside the try block.
resolve_youtube_direct_url(http, data) ==
    IF http # "ok" THEN Gives(JNull) ELSE pick_progressive_mp4(data)

\* twelvelabs_summary._resolve_youtube_via_rapidapi: the same with four paths.
resolve_youtube_via_rapidapi(http, data) ==
    IF http # "ok" THEN Gives(JNull) ELSE pick_over(data, FormatPathsSummary)

\* Entries of a format list as the endpoint may send them: the two
\* progressive tiers (itag as a number or as a string, the type under "mime"
\* or under "type" or absent), another MP4, an audio stream, an entry without
\* a URL, an entry whose mime is a number, and an item that is no object.
MimeMp4 == VideoMp4 \o <<";">>
MimeWebm == <<"a", "u", "d", "i", "o", "/", "w", "e", "b", "m">>
EntryKinds == {"itag22", "itag18", "mp4", "audio", "itag22_no_url", "mime_number", "no_object"}

\* The entry of kind k carrying the URL u.
Entry(k, u) ==
    CASE k = "itag22" -> JObj([url |-> JStr(u), itag |-> JNum(22)])
      [] k = "itag18" -> JObj([url |-> JStr(u), itag |-> JStr(Itag18), type |-> JStr(MimeMp4)])
      [] k = "mp4" -> JObj([url |-> JStr(u), itag |-> JNum(5), mime |-> JStr(MimeMp4)])
      [] k = "audio" -> JObj([url |-> JStr(u), mime |-> JStr(MimeWebm), itag |-> JNull])
      [] k = "itag22_no_url" -> JObj([url |-> JStr(<<>>), itag |-> JStr(Itag22)])
      [] k = "mime_number" -> JObj([url |-> JStr(u), mime |-> JNum(1)])
      [] OTHER -> JStr(u)

\* The format lists of at most MaxEntries entries, the i-th entry of the list
\* tagged `tag` carrying the URL <<tag, i>>; and a value that is not a list.
KindSeqs == UNION {[1..n -> EntryKinds] : n \in 0..MaxEntries}
FormatLists(tag) ==
    {JList([i \in 1..Len(ks) |-> Entry(ks[i], <<tag, DigitText[i + 1]>>)]) : ks \in KindSeqs}
    \cup {JStr(<<tag>>)}

\* The responses: an object with or without "formats", with or without
\* "streamingData" holding "formats"; and a value that is not an object.
WithKey(k, v) == IF v = Absent THEN <<>> ELSE k :> v
StreamData ==
    {JObj(WithKey("formats", f)
          @@ WithKey("streamingData", IF sf = Absent THEN Absent ELSE JObj([formats |-> sf]))) :
        f \in FormatLists("f") \cup {Absent}, sf \in FormatLists("s") \cup {Absent}}
    \cup {JList(<<>>)}

\* The two ingest coordinators: TwelveLabsBrandAnalyzer._ingest_from_url and
\* TwelveLabsSummarizer._ingest_from_url.
Coordinators == {"analyze_brand", "summary"}

\* What the second strategy of the summarizer (stream metadata read locally,
\* which returns None on any failure) gives; the analyzer has none.
LocalUrl == JStr(<<"l", "1">>)
LocalOutcomes(k) == IF k = "summary" THEN {JNull, LocalUrl} ELSE {JNull}

\* A call of _ingest_from_url(index_id, url) and what its environment will
\* answer to the resolver's request.
IngestRequests ==
    {[coordinator |-> k, url |-> UrlDirect, http |-> "no_api_key", data |-> JNull,
      local |-> JNull] : k \in Coordinators}
    \cup {[coordinator |-> k, url |-> UrlYoutuBe, http |-> h, data |-> d, local |-> l] :
            k \in Coordinators, h \in HttpOutcomes \ {"ok"}, d \in {JNull},
            l \in {JNull, LocalUrl}}
    \cup {[coordinator |-> k, url |-> UrlYoutuBe, http |-> "ok", data |-> d, local |-> l] :
            k \in Coordinators, d \in StreamData, l \in {JNull, LocalUrl}}

IngestInit ==
    /\ config \in {cfg \in Configs : ~cfg.redis /\ cfg.index_id # NoneText}
    /\ callers = [overlap |-> FALSE, menu |-> {}]
    /\ pc = [c \in Calls |-> "idle"]
    /\ req = [c \in Calls |-> NoRequest]
    /\ loc = [c \in Calls |-> NoLocals]
    /\ res = [c \in Calls |-> NoResult]
    /\ ops = [c \in Calls |-> {}]
    /\ cache = <<>>
    /\ tempFiles = <<>>
    /\ index = "present"
    /\ nTasks = 0
    /\ faults = MaxFaults

\* _ingest_from_url is called, one call at a time.
IngestStart(c) ==
    /\ pc[c] = "idle"
    /\ \A d \in Calls : d < c => pc[d] # "idle"
    /\ \A d \in Calls \ {c} : pc[d] \in {"idle", "gone"}
    /\ \E r \in IngestRequests :
         /\ r.local \in LocalOutcomes(r.coordinator)
         /\ req' = [req EXCEPT ![c] = r]
    /\ Goto(c, "resolve_direct")
    /\ UNCHANGED <<config, callers, loc, ops, cache, tempFiles, index, nTasks, faults>>

\* The resolution of a YouTube URL by the coordinator of call c: the analyzer
\* asks resolve_youtube_direct_url; the summarizer asks
\* _resolve_youtube_via_rapidapi, then its local strategy, and refuses to go
\* on with nothing resolved when the download fallback is disabled. An
\* exception of the resolver leaves the coordinator.
ResolveDirect(c) ==
    /\ pc[c] = "resolve_direct"
    /\ LET r == req[c]
           got == IF r.coordinator = "analyze_brand"
                  THEN resolve_youtube_direct_url(r.http, r.data)
                  ELSE resolve_youtube_via_rapidapi(r.http, r.data)
           direct == IF r.coordinator = "summary" THEN py_or(got.value, r.local)
                     ELSE got.value
       IN  IF ~is_youtube_url(r.url)
           THEN /\ loc' = [loc EXCEPT ![c] = [picked |-> Absent, direct |-> Absent,
                                              video_url |-> r.url]]
                /\ Goto(c, "create_task")
                /\ UNCHANGED ops
           ELSE /\ Did(c, "resolve")
                /\ IF got.raised
                   THEN /\ loc' = [loc EXCEPT ![c] = [picked |-> Absent, direct |-> Absent,
                                                      video_url |-> r.url]]
                        /\ Raise(c, Exc(got.type, "argument of type 'int' is not iterable"))
                   ELSE /\ loc' = [loc EXCEPT ![c] =
                                     [picked |-> got.value, direct |-> direct,
                                      video_url |-> IF py_truthy(direct) THEN direct
                                                    ELSE r.url]]
                        /\ IF /\ r.coordinator = "summary"
                              /\ ~py_truthy(direct)
                              /\ ~config.allow_youtube_download_fallback
                           THEN Raise(c, Exc("RuntimeError", "Unable to resolve a direct stream URL from YouTube and fallback disabled."))
                           ELSE Goto(c, "create_task")
    /\ UNCHANGED <<config, callers, req, cache, tempFiles, index, nTasks, faults>>

\* tasks.create(video_url=video_url): accepted, or rejected; a rejection leads
\* to the download of a YouTube URL if the fallback is allowed.
CreateTask(c) ==
    /\ pc[c] = "create_task"
    /\ Did(c, "task_create_url")
    /\ \E o \in {"ok", "reject"} :
         IF o = "ok" THEN Return(c, [t |-> "task", video_url |-> loc[c].video_url])
         ELSE IF fallback_allowed(req[c].url) THEN Goto(c, "fallback_download")
         ELSE Raise(c, Exc("BackendError", "tasks.create"))
    /\ UNCHANGED <<config, callers, req, loc, cache, tempFiles, index, nTasks, faults>>

\* The fallback: _download_youtube_to_temp, then the upload of the file.
FallbackDownload(c) ==
    /\ pc[c] = "fallback_download"
    /\ Did(c, "download")
    /\ \E o \in {"ok", "fail"} :
         IF o = "ok" THEN Return(c, [t |-> "task", video_url |-> None])
         ELSE Raise(c, Exc("RuntimeError", "Direct YouTube URL not accepted and yt_dlp fallback failed."))
    /\ UNCHANGED <<config, callers, req, loc, cache, tempFiles, index, nTasks, faults>>

IngestNext ==
    \E c \in Calls :
        \/ IngestStart(c)
        \/ ResolveDirect(c)
        \/ CreateTask(c)
        \/ FallbackDownload(c)
        \/ Forget(c)

IngestSpec == IngestInit /\ [][IngestNext]_vars

\* ------------------------------------------------------------------ key spaces
\* A youtu.be URL whose path segment holds a colon: _extract_youtube_id returns
\* the segment as it is.
IdWithColon == <<"v", "1", ":", "a", "n", "a", "l", "y", "s", "i", "s">>
UrlYoutuBeColon == [netloc |-> HostYoutuBe, path |-> <<IdWithColon>>, query |-> <<>>]

\* A brand whose key is the word the mapping key ends with.
BrandTlVideoId == <<"t", "l", " ", "v", "i", "d", "e", "o", " ", "i", "d">>

\* Calls for two YouTube URLs, each with a brand.
KeyRequests ==
    { Request(BrandTlVideoId, NoneText, UrlYoutuBe, None),
      Request(<<"A", "b">>, NoneText, UrlYoutuBeColon, None) }

\* Calls of KeyRequests to a caching analyzer, one at a time or overlapping;
\* no injected failures.
KeyInit ==
    /\ config \in {cfg \in Configs : cfg.redis}
    /\ callers = [overlap |-> TRUE, menu |-> KeyRequests]
    /\ pc = [c \in Calls |-> "idle"]
    /\ req = [c \in Calls |-> NoRequest]
    /\ loc = [c \in Calls |-> NoLocals]
    /\ res = [c \in Calls |-> NoResult]
    /\ ops = [c \in Calls |-> {}]
    /\ cache = <<>>
    /\ tempFiles = <<>>
    /\ index \in {"absent", "present"}
    /\ nTasks = 0
    /\ faults = MaxFaults

KeyNext ==
    \E c \in Calls :
        \/ \E r \in KeyRequests : Start(c, r)
        \/ ReadAnalysis(c)
        \/ Resolve(c)
        \/ IndexList(c)
        \/ IndexCreate(c)
        \/ IndexRelist(c)
        \/ ReadMapping(c)
        \/ CreateByUrl(c)
        \/ Download(c)
        \/ OpenFile(c)
        \/ Upload(c)
        \/ RemoveTemp(c)
        \/ WaitTask(c)
        \/ WaitReady(c)
        \/ StoreMapping(c)
        \/ Generate(c)
        \/ StoreAnalysis(c)
        \/ Forget(c)

KeySpec == KeyInit /\ [][KeyNext]_vars

\* ------------------------------------------------------------------ cloudglue_summary
\* The attributes of class CloudglueSummarizer: the definitions indented under
\* the class statement. _wait_file_ready, _describe and _extract_summary_text
\* are written after the module-level function _download_youtube_to_temp, at
\* the indentation of its body and after its last return: they belong to that
\* function's body and are no attributes of the class.
CloudglueMethods ==
    {"__init__", "from_env", "summarize_url", "_ensure_collection", "_ingest_youtube",
     "_ingest_direct_url", "_upload_file"}

\* self.<name>: the attribute, or AttributeError.
has_method(name) == name \in CloudglueMethods

CollectionId == <<"c", "1">>
FileId == <<"f", "1">>

\* CloudglueConfig: collection_id is set in the environment or not.
CloudglueConfigs == [collection_id : {NoneText, CollectionId}]

\* summarize_url(media_url, youtube=...)
CloudglueRequests == [media_url : {UrlYoutuBe, UrlDirect}, youtube : BOOLEAN]

NoCloudglueLocals ==
    [collection_id |-> NoneText, file_id |-> NoneText, temp_path |-> NoneText,
     posts |-> 0, lists |-> 0]

\* The bodies _ensure_collection posts in turn and the parameters it lists
\* with in turn: three of each.
CreationShapes == <<"name", "collectionName", "label">>
ListShapes == <<"name", "collectionName", "none">>

\* What a POST /collections does: it raises requests.RequestException, it is
\* answered with a status other than 200/201, with 200/201 and an id, or with
\* 200/201 and no id in the body or in the Location header.
PostAnswers == {"raises", "rejected", "created", "no_id"}

\* What a GET /collections does: it raises, it is answered `not r.ok`, with
\* items none of which has the name and an id, or with one that has.
ListAnswers == {"raises", "not_ok", "no_match", "match"}

\* The first loop of _ensure_collection, after the i-th POST: a POST that
\* raises ends the resolution with CloudglueError; an id is returned; an
\* answer without an id breaks out to the listing; a rejected POST is
\* followed by the next body, or by the listing after the last.
create_step(answer, i) ==
    IF answer = "raises" THEN "raise"
    ELSE IF answer = "created" THEN "return"
    ELSE IF answer = "no_id" THEN "list"
    ELSE IF i < Len(CreationShapes) THEN "next"
    ELSE "list"

\* The second loop, after the i-th GET: a match is returned; any other
\* answer is followed by the next parameters, or by CloudglueError after the
\* last.
list_step(answer, i) ==
    IF answer = "match" THEN "return"
    ELSE IF i < Len(ListShapes) THEN "next"
    ELSE "raise"

\* The file _download_youtube_to_temp of this module writes.
cloudglue_temp_path_of(url) == <<"c", "g", "-">> \o extract_youtube_id(url)

CloudglueInit ==
    /\ config \in CloudglueConfigs
    /\ callers = [overlap |-> TRUE, menu |-> CloudglueRequests]
    /\ pc = [c \in Calls |-> "idle"]
    /\ req = [c \in Calls |-> NoRequest]
    /\ loc = [c \in Calls |-> NoLocals]
    /\ res = [c \in Calls |-> NoResult]
    /\ ops = [c \in Calls |-> {}]
    /\ cache = <<>>
    /\ tempFiles = <<>>
    /\ index = "present"
    /\ nTasks = 0
    /\ faults = MaxFaults

\* summarize_url is called.
SummarizeUrl(c) ==
    /\ pc[c] = "idle"
    /\ \A d \in Calls : d < c => pc[d] # "idle"
    /\ \E r \in CloudglueRequests : req' = [req EXCEPT ![c] = r]
    /\ loc' = [loc EXCEPT ![c] = NoCloudglueLocals]
    /\ Goto(c, "ensure_collection")
    /\ UNCHANGED <<config, callers, ops, cache, tempFiles, index, nTasks, faults>>

\* The collection id is known: it is kept in the configuration and the
\* ingest starts.
CollectionResolved(c, id) ==
    /\ config' = [config EXCEPT !.collection_id = id]
    /\ Goto(c, IF req[c].youtube THEN "cg_download" ELSE "cg_ingest_url")

\* _ensure_collection, lines 101-102: the configured id is returned;
\* without one the creation requests start.
EnsureCollection(c) ==
    /\ pc[c] = "ensure_collection"
    /\ IF config.collection_id # NoneText
       THEN /\ loc' = [loc EXCEPT ![c].collection_id = config.collection_id]
            /\ Goto(c, IF req[c].youtube THEN "cg_download" ELSE "cg_ingest_url")
       ELSE /\ Goto(c, "cg_post")
            /\ UNCHANGED loc
    /\ UNCHANGED <<config, callers, req, ops, cache, tempFiles, index, nTasks, faults>>

\* _ensure_collection, one POST /collections of the first loop.
PostCollection(c) ==
    /\ pc[c] = "cg_post"
    /\ Did(c, "collections_post")
    /\ \E answer \in PostAnswers :
         LET i == loc[c].posts + 1
             step == create_step(answer, i)
         IN  CASE step = "raise" ->
                    /\ Raise(c, Exc("CloudglueError", "collections POST failed"))
                    /\ loc' = [loc EXCEPT ![c].posts = i]
                    /\ UNCHANGED config
               [] step = "return" ->
                    /\ CollectionResolved(c, CollectionId)
                    /\ loc' = [loc EXCEPT ![c].posts = i, ![c].collection_id = CollectionId]
               [] step = "list" ->
                    /\ Goto(c, "cg_list")
                    /\ loc' = [loc EXCEPT ![c].posts = i]
                    /\ UNCHANGED config
               [] OTHER ->
                    /\ loc' = [loc EXCEPT ![c].posts = i]
                    /\ UNCHANGED <<pc, res, config>>
    /\ UNCHANGED <<callers, req, cache, tempFiles, index, nTasks, faults>>

\* _ensure_collection, one GET /collections of the second loop.
ListCollections(c) ==
    /\ pc[c] = "cg_list"
    /\ Did(c, "collections_list")
    /\ \E answer \in ListAnswers :
         LET i == loc[c].lists + 1
             step == list_step(answer, i)
         IN  CASE step = "raise" ->
                    /\ Raise(c, Exc("CloudglueError",
                                    "Unable to resolve or create collection id."))
                    /\ loc' = [loc EXCEPT ![c].lists = i]
                    /\ UNCHANGED config
               [] step = "return" ->
                    /\ CollectionResolved(c, CollectionId)
                    /\ loc' = [loc EXCEPT ![c].lists = i, ![c].collection_id = CollectionId]
               [] OTHER ->
                    /\ loc' = [loc EXCEPT ![c].lists = i]
                    /\ UNCHANGED <<pc, res, config>>
    /\ UNCHANGED <<callers, req, cache, tempFiles, index, nTasks, faults>>

\* _ingest_youtube, step 1: the download to a temporary file, or None.
CloudglueDownload(c) ==
    /\ pc[c] = "cg_download"
    /\ Did(c, "download")
    /\ \E o \in {"written", "none"} :
         IF o = "written" /\ extract_youtube_id(req[c].media_url) # NoneText
         THEN LET path == cloudglue_temp_path_of(req[c].media_url)
              IN  /\ tempFiles' = (path :> c) @@ tempFiles
                  /\ loc' = [loc EXCEPT ![c].temp_path = path]
                  /\ Goto(c, "cg_upload")
         ELSE /\ Goto(c, "cg_ingest_youtube")
              /\ UNCHANGED <<loc, tempFiles>>
    /\ UNCHANGED <<config, callers, req, cache, index, nTasks, faults>>

\* _upload_file and the `finally` around it: a file id, or None when no
\* endpoint took the file (an open that fails is one such case); the
\* temporary file is removed either way.
CloudglueUpload(c) ==
    /\ pc[c] = "cg_upload"
    /\ Did(c, "upload")
    /\ tempFiles' = os_remove(tempFiles, loc[c].temp_path)
    /\ \E o \in {"file_id", "none"} :
         IF o = "file_id" /\ loc[c].temp_path \in DOMAIN tempFiles
         THEN /\ loc' = [loc EXCEPT ![c].file_id = FileId]
              /\ Goto(c, "wait_file_ready")
         ELSE /\ UNCHANGED loc
              /\ Goto(c, "cg_ingest_youtube")
    /\ UNCHANGED <<config, callers, req, cache, index, nTasks, faults>>

\* _ingest_youtube, step 2: the YouTube ingest endpoints, each body in turn;
\* with no file id from any, the generic ingest by URL comes next.
CloudglueIngestYoutube(c) ==
    /\ pc[c] = "cg_ingest_youtube"
    /\ Did(c, "ingest_youtube")
    /\ \E o \in {"file_id", "none"} :
         IF o = "file_id"
         THEN /\ loc' = [loc EXCEPT ![c].file_id = FileId]
              /\ Goto(c, "wait_file_ready")
         ELSE /\ UNCHANGED loc
              /\ Goto(c, "cg_ingest_url")
    /\ UNCHANGED <<config, callers, req, cache, tempFiles, index, nTasks, faults>>

\* _ingest_direct_url: a file id from one of the endpoints, or CloudglueError.
CloudglueIngestUrl(c) ==
    /\ pc[c] = "cg_ingest_url"
    /\ Did(c, "ingest_url")
    /\ \E o \in {"file_id", "none"} :
         IF o = "file_id"
         THEN /\ loc' = [loc EXCEPT ![c].file_id = FileId]
              /\ Goto(c, "wait_file_ready")
         ELSE /\ UNCHANGED loc
              /\ Raise(c, Exc("CloudglueError", "Failed to create file from URL"))
    /\ UNCHANGED <<config, callers, req, cache, tempFiles, index, nTasks, faults>>

\* summarize_url, line 90: self._wait_file_ready(file_id). The attribute is
\* looked up on the instance first.
CallWaitFileReady(c) ==
    /\ pc[c] = "wait_file_ready"
    /\ IF has_method("_wait_file_ready")
       THEN Goto(c, "poll_file")
       ELSE Raise(c, Exc("AttributeError",
                         "'CloudglueSummarizer' object has no attribute '_wait_file_ready'"))
    /\ UNCHANGED <<config, callers, req, loc, ops, cache, tempFiles, index, nTasks, faults>>

CloudglueNext ==
    \E c \in Calls :
        \/ SummarizeUrl(c)
        \/ EnsureCollection(c)
        \/ PostCollection(c)
        \/ ListCollections(c)
        \/ CloudglueDownload(c)
        \/ CloudglueUpload(c)
        \/ CloudglueIngestYoutube(c)
        \/ CloudglueIngestUrl(c)
        \/ CallWaitFileReady(c)
        \/ Forget(c)

CloudglueSpec == CloudglueInit /\ [][CloudglueNext]_vars

\* ------------------------------------------------------------------ HTTP front-ends
\* The two applications that serve POST /analyze.
FrontEnds == {"service.api", "apis.main"}

\* `not video_id and not (youtube_url or video_url)`: the request names no
\* source.
no_source(r) == ~TruthyText(r.video_id) /\ ~(Truthy(r.youtube_url) \/ Truthy(r.video_url))

\* What happens to a request before the analyzer is built: 0 when it goes on,
\* or the status it is answered with. service/api.py checks the source in a
\* validator of the request model, and the framework answers a request its
\* model rejects with 422; apis/main.py checks it in the handler and raises
\* HTTPException(400).
check_source(frontend, r) ==
    IF ~no_source(r) THEN 0
    ELSE IF frontend = "service.api" THEN 422
    ELSE 400

\* from_env: the analyzer, or the exception it raises (no API key, no SDK).
FromEnvOutcomes ==
    {None, Exc("ValueError", "Missing TWELVE_LABS_API_KEY. Set it in your environment."),
     Exc("RuntimeError", "twelvelabs SDK not installed")}

\* The exceptions `except ValueError` catches.
is_value_error(exc) == exc.type \in {"ValueError", "JSONDecodeError", "UnicodeDecodeError"}

\* `except ValueError` -> 400, `except Exception` -> 500, around analyze.
status_of_analyze(exc) == IF is_value_error(exc) THEN 400 ELSE 500

Answered(c) == pc[c] = "gone" /\ "status" \in DOMAIN res[c]

\* The response of the handler: its status, the stage it was decided at, and
\* the exception behind it (None with the envelope, whose content is left out).
Response(status, stage, exc) == [status |-> status, stage |-> stage, exc |-> exc]

\* The requests sent to the front-ends: without a source, with a video id,
\* with a YouTube URL, with a direct URL.
ApiRequests ==
    { Request(<<"A", "b">>, NoneText, None, None),
      Request(<<"A", "b">>, <<>>, EmptyUrl, EmptyUrl),
      Request(<<"A", "b">>, <<"x", "9">>, None, None),
      Request(<<"A", "b">>, NoneText, UrlYoutuBe, None),
      Request(<<"A", "b">>, NoneText, None, UrlDirect) }

ApiInit ==
    /\ config \in Configs
    /\ callers \in {[overlap |-> FALSE, menu |-> ApiRequests, frontend |-> f] : f \in FrontEnds}
    /\ pc = [c \in Calls |-> "idle"]
    /\ req = [c \in Calls |-> NoRequest]
    /\ loc = [c \in Calls |-> NoLocals]
    /\ res = [c \in Calls |-> NoResult]
    /\ ops = [c \in Calls |-> {}]
    /\ cache = <<>>
    /\ tempFiles = <<>>
    /\ index \in {"absent", "present"}
    /\ nTasks = 0
    /\ faults = 0

\* The handler answers without calling analyze.
AnswerEarly(c, r, status, stage, exc) ==
    /\ pc[c] = "idle"
    /\ \A d \in Calls : d < c => pc[d] = "gone"
    /\ pc' = [pc EXCEPT ![c] = "gone"]
    /\ req' = [req EXCEPT ![c] = r]
    /\ res' = [res EXCEPT ![c] = Response(status, stage, exc)]
    /\ UNCHANGED <<config, callers, loc, ops, cache, tempFiles, index, nTasks, faults>>

\* POST /analyze up to the call of analyze: the request is checked, the
\* analyzer is built, and analyze starts.
AnalyzeEndpoint(c) ==
    \E r \in callers.menu :
        LET early == check_source(callers.frontend, r)
        IN  IF early # 0
            THEN AnswerEarly(c, r, early, "request", None)
            ELSE \E built \in FromEnvOutcomes :
                    IF built # None
                    THEN AnswerEarly(c, r, 500, "from_env", built)
                    ELSE Start(c, r)

\* POST /analyze after analyze: the envelope is the response, or the
\* exception is turned into an HTTPException.
Answer(c) ==
    /\ Finished(c)
    /\ pc' = [pc EXCEPT ![c] = "gone"]
    /\ res' = [res EXCEPT ![c] =
                  IF res[c].exc = None
                  THEN Response(200, "analyze", None)
                  ELSE Response(status_of_analyze(res[c].exc), "analyze", res[c].exc)]
    /\ loc' = [loc EXCEPT ![c] = NoLocals]
    /\ ops' = [ops EXCEPT ![c] = {}]
    /\ UNCHANGED <<config, callers, req, cache, tempFiles, index, nTasks, faults>>

ApiNext ==
    \E c \in Calls :
        \/ AnalyzeEndpoint(c)
        \/ ReadAnalysis(c) \/ Resolve(c)
        \/ IndexList(c) \/ IndexCreate(c) \/ IndexRelist(c)
        \/ ReadMapping(c) \/ CreateByUrl(c)
        \/ Download(c) \/ OpenFile(c) \/ Upload(c) \/ RemoveTemp(c)
        \/ WaitTask(c) \/ WaitReady(c)
        \/ StoreMapping(c) \/ Generate(c) \/ StoreAnalysis(c)
        \/ Answer(c)

ApiSpec == ApiInit /\ [][ApiNext]_vars

\* ------------------------------------------------------------------ the waits
\* Calls that ingest a URL, one at a time, with failures injected.
WaitRequests ==
    { Request(<<"A", "b">>, NoneText, UrlYoutuBe, None),
      Request(<<"A", "b">>, NoneText, None, UrlDirect) }

WaitInit ==
    /\ config \in Configs
    /\ callers = [overlap |-> FALSE, menu |-> WaitRequests]
    /\ pc = [c \in Calls |-> "idle"]
    /\ req = [c \in Calls |-> NoRequest]
    /\ loc = [c \in Calls |-> NoLocals]
    /\ res = [c \in Calls |-> NoResult]
    /\ ops = [c \in Calls |-> {}]
    /\ cache = <<>>
    /\ tempFiles = <<>>
    /\ index \in {"absent", "present"}
    /\ nTasks = 0
    /\ faults = 0

\* Every retrieve returns or raises, and the thread of the call goes on: an
\* iteration of a wait loop that is due is eventually made.
WaitFairness == \A c \in Calls : WF_vars(WaitTask(c)) /\ WF_vars(WaitReady(c))

WaitSpec == WaitInit /\ [][Next]_vars /\ WaitFairness

\* ------------------------------------------------------------------ brand keys
\* The characters of the brands: letters of both cases, a digit, two
\* separators (one of them the "_" the key is built with) and a letter
\* outside ASCII in both cases.
BrandChars == {"A", "a", "1", "-", "_", "É"}

RECURSIVE TextsUpTo(_, _)
TextsUpTo(chars, n) ==
    IF n = 0 THEN {<<>>}
    ELSE LET shorter == TextsUpTo(chars, n - 1)
         IN  shorter \cup {Append(t, ch) : t \in shorter, ch \in chars}

\* Longer brands, with runs of several separators inside and at the ends.
LongBrands ==
    { <<"a", "-", "-", "a">>, <<"A", "_", "-", "1">>, <<"-", "_", "a", "-", "_">>,
      <<"a", "é", "-", "A">>, <<"_", "_", "1", "_">> }

Brands34 == TextsUpTo(BrandChars, MaxBrandLen) \cup LongBrands

\* Two brands are given; nothing else is in play.
BrandInit ==
    /\ config \in {cfg \in Configs : ~cfg.redis /\ ~cfg.allow_youtube_download_fallback
                                     /\ cfg.index_id = NoneText}
    /\ callers = [overlap |-> FALSE, menu |-> {}]
    /\ pc = [c \in Calls |-> "idle"]
    /\ req \in [Calls -> {Request(b, NoneText, None, None) : b \in Brands34}]
    /\ loc = [c \in Calls |-> NoLocals]
    /\ res = [c \in Calls |-> NoResult]
    /\ ops = [c \in Calls |-> {}]
    /\ cache = <<>>
    /\ tempFiles = <<>>
    /\ index = "absent"
    /\ nTasks = 0
    /\ faults = MaxFaults

\* _brand_key(brand) is computed for the brand of call c.
BrandKey(c) ==
    /\ pc[c] = "idle"
    /\ \A d \in Calls : d < c => pc[d] # "idle"
    /\ pc' = [pc EXCEPT ![c] = "keyed"]
    /\ res' = [res EXCEPT ![c] = [key |-> brand_key(req[c].brand), again |-> NoneText]]
    /\ UNCHANGED <<config, callers, req, loc, ops, cache, tempFiles, index, nTasks, faults>>

\* _brand_key is applied to the key it returned.
BrandKeyAgain(c) ==
    /\ pc[c] = "keyed"
    /\ \A d \in Calls : pc[d] # "idle"
    /\ pc' = [pc EXCEPT ![c] = "keyed_again"]
    /\ res' = [res EXCEPT ![c].again = brand_key(res[c].key)]
    /\ UNCHANGED <<config, callers, req, loc, ops, cache, tempFiles, index, nTasks, faults>>

BrandNext == \E c \in Calls : BrandKey(c) \/ BrandKeyAgain(c)

BrandSpec == BrandInit /\ [][BrandNext]_vars

\* ------------------------------------------------------------------ generation parameters
\* config.temperature (line 195: 0.2) and config.max_tokens (line 196: None);
\* temperatures are counted in tenths.
config_temperature == JNum(2)
config_max_tokens == None

\* analyze_video, lines 294-300: an argument that is not None replaces the
\* configured value (a temperature of 0 is kept).
effective(value, configured) == IF value # None THEN value ELSE configured

\* The per-request arguments of analyze besides the brand and the source.
DefaultParams == [temperature |-> None, max_tokens |-> None, metadata |-> None]
GenParams ==
    { DefaultParams,
      [DefaultParams EXCEPT !.temperature = JNum(0)],
      [DefaultParams EXCEPT !.max_tokens = JNum(1)],
      [DefaultParams EXCEPT !.metadata = JObj([k |-> JStr(<<"v">>)])],
      [temperature |-> JNum(0), max_tokens |-> JNum(1),
       metadata |-> JObj([k |-> JStr(<<"v">>)])] }

\* analyze(brand=..., youtube_url=..., metadata=..., temperature=...,
\* max_tokens=...).
ParamRequest(brand, youtube_url, p) ==
    [brand |-> brand, video_id |-> NoneText, youtube_url |-> youtube_url,
     video_url |-> None, temperature |-> p.temperature,
     max_tokens |-> p.max_tokens, metadata |-> p.metadata]

\* Calls for one video and one brand key with every choice of the parameters.
ParamRequests ==
    {ParamRequest(<<"A", "b">>, UrlYoutuBe, p) : p \in GenParams}
        \cup {ParamRequest(<<"a", "B">>, UrlYoutuBe, DefaultParams)}

\* A backend whose answer depends on the parameters of the generation call:
\* one token is not enough for a JSON document, and at temperature 0 the
\* answer is the same valid document every time.
ResponsesFor(temperature, max_tokens) ==
    IF max_tokens = JNum(1)
    THEN {Raw(<<"g", "1">>, [t |-> "text", chars |-> <<"oops">>, loads |-> JsonError])}
    ELSE IF temperature = JNum(0)
    THEN {Raw(<<"g", "1">>, json_dumps(DocValid))}
    ELSE Responses

\* analyze, step 3, with the parameters of the call.
GenerateWith(c) ==
    /\ pc[c] = "generate"
    /\ analyze_step(c, ResponsesFor(effective(req[c].temperature, config_temperature),
                                    effective(req[c].max_tokens, config_max_tokens)))

\* What an earlier call for the video and the brand left in the store: the
\* mapping and an envelope.
EarlierEnvelope ==
    analyze_video(VideoIdOf(TaskId(0)), <<"A", "b">>, UrlYoutuBe, BackendIndexId,
                  Raw(<<"g", "1">>, json_dumps(DocBadMention)), 0)
EarlierStore ==
    (redis_key_analysis(redis_prefix, yt_id_of(ParamRequest(<<"A", "b">>, UrlYoutuBe, DefaultParams)),
                        <<"A", "b">>) :> redis_set_json(EarlierEnvelope))
    @@ (redis_key_video_map(redis_prefix, yt_id_of(ParamRequest(<<"A", "b">>, UrlYoutuBe, DefaultParams)))
            :> PlainText(VideoIdOf(TaskId(0))))

\* Calls of ParamRequests to a caching analyzer, one after another or
\* overlapping, on an empty store or on the store an earlier call left; no
\* injected failures.
ParamInit ==
    /\ config = [redis |-> TRUE, allow_youtube_download_fallback |-> TRUE,
                 index_id |-> NoneText]
    /\ callers = [overlap |-> TRUE, menu |-> ParamRequests]
    /\ pc = [c \in Calls |-> "idle"]
    /\ req = [c \in Calls |-> NoRequest]
    /\ loc = [c \in Calls |-> NoLocals]
    /\ res = [c \in Calls |-> NoResult]
    /\ ops = [c \in Calls |-> {}]
    /\ cache \in {<<>>, EarlierStore}
    /\ tempFiles = <<>>
    /\ index = "present"
    /\ nTasks = 0
    /\ faults = MaxFaults

ParamNext ==
    \E c \in Calls :
        \/ \E r \in ParamRequests : Start(c, r)
        \/ ReadAnalysis(c)
        \/ Resolve(c)
        \/ IndexList(c)
        \/ ReadMapping(c)
        \/ CreateByUrl(c)
        \/ Download(c)
        \/ OpenFile(c)
        \/ Upload(c)
        \/ RemoveTemp(c)
        \/ WaitTask(c)
        \/ WaitReady(c)
        \/ StoreMapping(c)
        \/ GenerateWith(c)
        \/ StoreAnalysis(c)
        \/ Forget(c)

ParamSpec == ParamInit /\ [][ParamNext]_vars

\* ------------------------------------------------------------------ claims
BackendOps ==
    {"index_list", "index_create", "resolve", "task_create_url", "download",
     "task_create_file", "task_retrieve", "video_retrieve", "generate"}
CacheOps == {"get_analysis", "get_mapping", "set_mapping", "set_analysis"}
IngestOps == {"task_create_url", "task_create_file", "task_retrieve", "video_retrieve"}

Active(c) == pc[c] \notin {"idle", "gone"}

\* A request with neither a video id nor a URL (each absent or empty).
NoSource(r) == ~TruthyText(r.video_id) /\ ~Truthy(r.youtube_url) /\ ~Truthy(r.video_url)

\* C1: a call whose video_id, youtube_url and video_url are all absent or
\* empty does nothing but raise ValueError: it is at the source check or has
\* raised ValueError there, and it has made no backend call and no cache read
\* or write.
C1_NoSourceRaisesValueError ==
    \A c \in Calls :
        Active(c) /\ NoSource(req[c]) =>
            /\ pc[c] \in {"resolve", "raised"}
            /\ pc[c] = "raised" => res[c].exc.type = "ValueError"
            /\ ops[c] = {}

C1_Witness ==
    \E c \in Calls :
        /\ pc[c] = "raised" /\ NoSource(req[c])
        /\ req[c].youtube_url = EmptyUrl
        /\ res[c].exc.type = "ValueError"

\* The brands callers send.
Brands == {r.brand : r \in Requests}

\* C2: when a call reads the analysis key (the read itself does not fail) while
\* a valid envelope is stored for its YouTube id under a brand that differs
\* from the call's brand at most in letter case, the call returns that
\* envelope at once, having made no task creation, no poll and no
\* generation call.
C2_Step(c) ==
    /\ pc[c] = "read_analysis"
    /\ pc'[c] # "read_analysis"
    /\ ~loc'[c].get_failed
    => \A b \in Brands :
         LET key == redis_key_analysis(redis_prefix, loc[c].yt_id, b)
         IN  /\ Lower(b) = Lower(req[c].brand)
             /\ key \in DOMAIN cache
             /\ ~LoadsRaises(cache[key])
             /\ BrandAnalysisResultOk(cache[key].loads)
             => /\ pc'[c] = "returned"
                /\ res'[c].ret = BrandAnalysisResult(cache[key].loads)
                /\ ops'[c] \cap (IngestOps \cup {"generate"}) = {}
C2_CacheHitUnderBrandCasing == [][\A c \in Calls : C2_Step(c)]_vars

C2_Witness ==
    \E c \in Calls :
        /\ pc[c] = "returned"
        /\ ops[c] = {"get_analysis"}
        /\ res[c].ret.meta.brand # req[c].brand
        /\ Lower(res[c].ret.meta.brand) = Lower(req[c].brand)

\* The analysis keys of the videos and brands callers send.
YoutubeIds == {yt_id_of(r) : r \in Requests} \ {NoneText}
AnalysisKeys == {redis_key_analysis(redis_prefix, y, b) : y \in YoutubeIds, b \in Brands}

\* The envelope stored under key k (k is in the cache).
Stored(k) == BrandAnalysisResult(cache[k].loads)
HoldsEnvelope(k) ==
    k \in DOMAIN cache /\ ~LoadsRaises(cache[k]) /\ BrandAnalysisResultOk(cache[k].loads)

\* C3: when two calls for the same fresh (YouTube video, brand) pair overlap,
\* neither raises because of what the other did (the one such exception is
\* the FileNotFoundError of opening a temporary file the other call removed),
\* and once both have returned the analysis key holds one valid envelope, the
\* one returned by one of the two calls.
C3_ConcurrentCallsBothReturn ==
    callers.overlap =>
        /\ \A c \in Calls : pc[c] = "raised" => res[c].exc.type # "FileNotFoundError"
        /\ (\A c \in Calls : pc[c] = "returned") =>
              \A k \in AnalysisKeys \cap DOMAIN cache :
                  /\ HoldsEnvelope(k)
                  /\ \E c \in Calls : Stored(k) = res[c].ret

\* C4: a temporary file written by the download fallback of a call exists
\* only while that call is between the download and the `finally` that
\* removes it: it is gone when the ingest goes on to wait for the task, and
\* when the call returns or raises, whatever the upload did.
C4_TempFileRemoved ==
    \A p \in DOMAIN tempFiles :
        pc[tempFiles[p]] \in {"open_file", "upload", "remove_temp"}

C4_Witness ==
    \E c \in Calls :
        /\ pc[c] = "raised"
        /\ {"download", "task_create_file"} \subseteq ops[c]
        /\ res[c].exc.type = "TimeoutError"
        /\ tempFiles = <<>>

\* C5: a poll of the indexing task that finds it pending after the deadline
\* raises TimeoutError, and one that finds it pending before the deadline polls
\* again; a poll that finds it failed raises the RuntimeError "Indexing
\* failed"; a TimeoutError is raised only for a pending task past the
\* deadline and the RuntimeError only for a failed one.
C5_Step(c) ==
    /\ pc[c] = "wait_task"
    /\ pc'[c] # pc[c] \/ loc'[c] # loc[c]
    => LET status == loc'[c].status
           past == loc[c].now > loc[c].deadline
           timeout == pc'[c] = "raised" /\ res'[c].exc.type = "TimeoutError"
           failure == pc'[c] = "raised" /\ res'[c].exc = Exc("RuntimeError", "Indexing failed")
       IN  /\ status = "pending" /\ past => timeout
           /\ status = "pending" /\ ~past => pc'[c] = "wait_task"
           /\ status = "failed" => failure
           /\ timeout => status = "pending" /\ past
           /\ failure => status = "failed"
C5_TimeoutDistinctFromFailure == [][\A c \in Calls : C5_Step(c)]_vars

C5_Witness ==
    \E c \in Calls :
        /\ pc[c] = "raised"
        /\ res[c].exc = Exc("TimeoutError", "Timed out waiting for indexing task.")
        /\ loc[c].status = "pending"
        /\ loc[c].now > loc[c].deadline

\* An envelope with its three parts, the five fields of data, and every field
\* of the type the models declare.
IsCompleteEnvelope(e) ==
    /\ DOMAIN e = {"data", "meta", "errors"}
    /\ DOMAIN e.data = {"summary", "hashtags", "topics", "chapters", "brand_mentions"}
    /\ BrandAnalysisResultOk(model_dump(e))

Codes(e) == [i \in 1..Len(e.errors) |-> e.errors[i].code]

KeyOf(c) == redis_key_analysis(redis_prefix, loc[c].yt_id, req[c].brand)

\* C8: a call that reads the analysis key (the read itself does not fail)
\* while the key holds what a returned call wrote for its envelope returns an
\* envelope equal to that one, in data, meta and errors.
C8_Step(d) ==
    /\ pc[d] = "read_analysis"
    /\ pc'[d] # "read_analysis"
    /\ ~loc'[d].get_failed
    => \A c \in Calls \ {d} :
         /\ pc[c] = "returned"
         /\ "set_analysis" \in ops[c]
         /\ KeyOf(c) = KeyOf(d)
         /\ KeyOf(c) \in DOMAIN cache
         /\ cache[KeyOf(c)] = redis_set_json(res[c].ret)
         => /\ pc'[d] = "returned"
            /\ res'[d].ret = res[c].ret
C8_CacheRoundTrip == [][\A d \in Calls : C8_Step(d)]_vars

C8_Witness ==
    \E c, d \in Calls :
        /\ pc[c] = "returned" /\ "set_analysis" \in ops[c]
        /\ pc[d] = "returned" /\ ops[d] = {"get_analysis"}
        /\ res[d].ret = res[c].ret
        /\ res[c].ret.data.brand_mentions # <<>>
        /\ res[c].ret.data.topics = <<>>
        /\ res[c].ret.meta.trace_id = NoneText
        /\ res[c].ret.meta.index_id = NoneText

\* An envelope without errors is stored under key k.
HoldsGood(store, k) ==
    /\ k \in DOMAIN store
    /\ ~LoadsRaises(store[k])
    /\ BrandAnalysisResultOk(store[k].loads)
    /\ BrandAnalysisResult(store[k].loads).errors = <<>>

\* C9: an analysis key that holds an envelope without errors holds one
\* without errors after every step of every call.
C9_GoodEnvelopeNotDegraded ==
    [][\A k \in AnalysisKeys : HoldsGood(cache, k) => HoldsGood(cache', k)]_vars

\* C10: every value stored under an analysis key is an envelope without errors.
C10_StoredEnvelopesHaveNoErrors ==
    \A k \in AnalysisKeys \cap DOMAIN cache : HoldsGood(cache, k)

\* The mapping key call c reads and writes.
MapKeyOf(c) == redis_key_video_map(redis_prefix, loc[c].yt_id)

\* A call that has used a mapped video id: it read the mapping and has made
\* no ingest operation.
UsedMapping(c) == "get_mapping" \in ops[c] /\ ops[c] \cap IngestOps = {}

\* C11: a call without video_id that reads the mapping key (the read itself
\* does not fail) while the key holds a video id goes on to the generation
\* call with that id, having created no task and polled nothing; and the
\* generation call of a call that used the mapping is made with that id and
\* still without any task creation or poll.
C11_Step(c) ==
    /\ (/\ pc[c] = "read_mapping"
        /\ pc'[c] # "read_mapping"
        /\ UsesCache(c)
        /\ ~loc'[c].get_failed
        /\ MapKeyOf(c) \in DOMAIN cache
        /\ TruthyText(cache[MapKeyOf(c)].chars)
        => /\ pc'[c] = "generate"
           /\ loc'[c].video_id = cache[MapKeyOf(c)].chars
           /\ ops'[c] \cap IngestOps = {})
    /\ (/\ pc[c] = "generate"
        /\ pc'[c] \in {"store_analysis", "returned"}
        /\ UsedMapping(c)
        => /\ loc'[c].result.meta.video_id = loc[c].video_id
           /\ ops'[c] \cap IngestOps = {})
C11_MappingSkipsIngest == [][\A c \in Calls : C11_Step(c)]_vars

C11_Witness ==
    \E c \in Calls :
        /\ pc[c] = "returned"
        /\ ~TruthyText(req[c].video_id)
        /\ {"get_analysis", "get_mapping", "generate"} \subseteq ops[c]
        /\ ops[c] \cap IngestOps = {}
        /\ res[c].ret.meta.video_id = cache[MapKeyOf(c)].chars

\* The operations that create a task or call the generation endpoint.
ExpensiveOps == {"task_create_url", "task_create_file", "generate"}

\* C12: with a live cache, a call that repeats a call that has returned (same
\* source URL, YouTube or direct, and same brand) creates no task and makes no
\* generation call.
C12_RepeatedCallDoesNoWork ==
    \A c \in Calls :
        config.redis /\ loc[c].repeat => ops[c] \cap ExpensiveOps = {}

\* C12 for the YouTube URLs alone.
C12_RepeatedYoutubeCallDoesNoWork ==
    \A c \in Calls :
        config.redis /\ loc[c].repeat /\ Truthy(req[c].youtube_url) =>
            ops[c] \cap ExpensiveOps = {}

\* A request with a video id and a URL.
IdAndUrl(r) == TruthyText(r.video_id) /\ (Truthy(r.youtube_url) \/ Truthy(r.video_url))

\* C13: the envelope returned to a call made with a video id and a URL is
\* about the supplied video: its meta.video_id is the supplied id.
C13_SuppliedIdTakesPriority ==
    \A c \in Calls :
        pc[c] = "returned" /\ IdAndUrl(req[c]) =>
            res[c].ret.meta.video_id = req[c].video_id

\* Index resolution, task creation (by URL or by upload, with the URL
\* resolution and the download they come with), the two polls and the
\* mapping write.
IngestPathOps ==
    {"index_list", "index_create", "resolve", "download", "set_mapping"} \cup IngestOps

\* C14: a call made with a video id, whatever URLs come with it, lists and
\* creates no index, creates no task, polls neither the task nor the video,
\* and writes no mapping.
C14_SuppliedIdSkipsIngest ==
    \A c \in Calls :
        Active(c) /\ TruthyText(req[c].video_id) => ops[c] \cap IngestPathOps = {}

C14_Witness ==
    \E c \in Calls :
        /\ pc[c] = "returned"
        /\ IdAndUrl(req[c])
        /\ "generate" \in ops[c]
        /\ config.index_id = NoneText


\* Every candidate fails: it is not configured, cannot be built, raises, or
\* does not answer the probe.
Dead(env) ==
    /\ \/ ~env.upstash
       \/ ~env.sdk.present
       \/ env.sdk.set = "raises"
       \/ env.sdk.get # "ok"
    /\ \/ ~env.upstash
       \/ ~env.rest.present
       \/ env.rest.set # "ok"
       \/ env.rest.get # "ok"
    /\ env.redis_py # "ping_ok"

\* The steps of analyze that touch the cache, and where the pipeline goes
\* from each when there is no cache entry to use or to write.
CacheSteps == {"read_analysis", "read_mapping", "store_mapping", "store_analysis"}

UncachedNext(label) ==
    CASE label = "read_analysis" -> "resolve"
      [] label = "read_mapping" -> "create_url"
      [] label = "store_mapping" -> "generate"
      [] label = "store_analysis" -> "returned"

\* A get or set of the cache fails in this step of call c.
CacheOpFails(c) == pc[c] \in CacheSteps /\ pc'[c] # pc[c] /\ faults' = faults + 1

C15_Step ==
    /\ callers.probe = None /\ callers'.probe # None =>
         /\ pc' = pc /\ res' = res
         /\ config'.redis = (callers'.probe.client # "none")
         /\ Dead(callers'.probe.env) => callers'.probe.client = "none"
    /\ \A c \in Calls :
         CacheOpFails(c) =>
            /\ pc'[c] = UncachedNext(pc[c])
            /\ cache' = cache
            /\ pc[c] = "store_analysis" => res'[c].ret = loc[c].result

RoundTripped(probe) == probe.client \in probe.written /\ probe.client \in probe.read_back

\* C16: for each of the three transports, the client selected for the
\* analyzer has answered a write of the sentinel key followed by a read
\* returning the written value; none is taken because it is configured or
\* reachable.
C16_SelectedAfterRoundTrip ==
    callers.probe # None /\ callers.probe.client # "none" => RoundTripped(callers.probe)

\* The same for the REST transport alone, whose probe is
\* `client.set(probe_key, "1") and client.get(probe_key) == "1"`.
C16_RestSelectedAfterRoundTrip ==
    callers.probe # None /\ callers.probe.client = "rest" => RoundTripped(callers.probe)


\* Prefixes, source ids and brands the keys are built from: the configured
\* prefix, the empty one and the sentinel itself; the ids of the requests and
\* the empty one.
KeyPrefixes == {redis_prefix, <<>>, probe_key}
KeyIds == YoutubeIds \cup {<<>>, probe_key}
KeyBrands == Brands \cup {<<>>, probe_key}

\* The keys analyze reads and writes.
PipelineKeys ==
    {redis_key_video_map(p, y) : p \in KeyPrefixes, y \in KeyIds}
    \cup {redis_key_analysis(p, y, b) : p \in KeyPrefixes, y \in KeyIds, b \in KeyBrands}

C17_Step ==
    /\ probe_key \notin PipelineKeys
    /\ callers.probe = None /\ callers'.probe # None =>
         /\ DOMAIN cache' \subseteq DOMAIN cache \cup {probe_key}
         /\ \A k \in DOMAIN cache \ {probe_key} : k \in DOMAIN cache' /\ cache'[k] = cache[k]

AskedResolver(c) == "resolve" \in ops[c]

\* C18: the URL resolver never raises: whatever the HTTP outcome and the shape
\* of the response, a call that asked it goes on with a URL or with None, and
\* no call ends with an exception of the resolver.
C18_ResolverNeverRaises ==
    \A c \in Calls :
        AskedResolver(c) =>
            /\ loc[c].picked # Absent
            /\ pc[c] = "raised" => res[c].exc.type \in {"RuntimeError", "BackendError"}

\* The same for the responses whose entries hold no number under mime or type.
NumberAsMime(j) ==
    \E p \in {"f", "s"} :
        LET node == node_at(j, IF p = "f" THEN FormatPaths[1] ELSE FormatPaths[2])
        IN  /\ node # Absent /\ IsList(node)
            /\ \E i \in 1..Len(node.v) :
                 IsObj(node.v[i]) /\ IsNum(py_or(dict_get(node.v[i], "mime"),
                                                 dict_get(node.v[i], "type")))
C18_ResolverRaisesOnlyOnNumberAsMime ==
    \A c \in Calls :
        AskedResolver(c) /\ ~NumberAsMime(req[c].data) =>
            /\ loc[c].picked # Absent
            /\ pc[c] = "raised" => res[c].exc.type \in {"RuntimeError", "BackendError"}

\* The entries of the two candidate lists of a response that have a URL.
Candidates(j) ==
    UNION {LET node == node_at(j, FormatPaths[p])
           IN  IF node # Absent /\ IsList(node)
               THEN {node.v[i] : i \in {n \in 1..Len(node.v) :
                                          /\ IsObj(node.v[n])
                                          /\ py_truthy(dict_get(node.v[n], "url"))}}
               ELSE {} : p \in 1..Len(FormatPaths)}

HasItag(e, itag) == dict_get(e, "itag") # JNull /\ py_str(dict_get(e, "itag")) = itag
IsMp4(e) ==
    LET mime == py_or(dict_get(e, "mime"), dict_get(e, "type"))
    IN  IsStr(mime) /\ IsSubstring(VideoMp4, mime.v)
UrlsOf(S) == {dict_get(e, "url") : e \in S}

\* The URL the tiers call for: of an itag-22 entry if there is one, else of an
\* itag-18 entry, else of an MP4 entry, else None.
TierChoice(j, url) ==
    LET all == Candidates(j)
        t22 == {e \in all : HasItag(e, Itag22)}
        t18 == {e \in all : HasItag(e, Itag18)}
        mp4 == {e \in all : IsMp4(e)}
    IN  IF t22 # {} THEN url \in UrlsOf(t22)
        ELSE IF t18 # {} THEN url \in UrlsOf(t18)
        ELSE IF mp4 # {} THEN url \in UrlsOf(mp4)
        ELSE url = JNull

\* C19: for every response, the resolver's pick is the URL of an itag-22 entry
\* if either candidate list has one with a URL, else of an itag-18 entry, else
\* of an MP4-typed entry, else None, whatever the order of the entries and
\* whichever list holds them.
C19_HigherTierWins ==
    \A c \in Calls :
        /\ AskedResolver(c)
        /\ req[c].http = "ok"
        /\ loc[c].picked # Absent
        => TierChoice(req[c].data, loc[c].picked)

\* The same for the responses with one candidate list only.
OneList(j) ==
    \E p \in 1..Len(FormatPaths) :
        LET node == node_at(j, FormatPaths[p]) IN node = Absent \/ ~IsList(node)
C19_HigherTierWinsInOneList ==
    \A c \in Calls :
        /\ AskedResolver(c)
        /\ req[c].http = "ok"
        /\ loc[c].picked # Absent
        /\ OneList(req[c].data)
        => TierChoice(req[c].data, loc[c].picked)

\* C20: a call of an ingest coordinator for a YouTube URL that every resolver
\* strategy left unresolved attempts the task creation with the original URL,
\* whatever the download-fallback flag, before it returns or raises.
C20_MissIsNotFatal ==
    \A c \in Calls :
        /\ Finished(c)
        /\ AskedResolver(c)
        /\ loc[c].direct = JNull
        => /\ "task_create_url" \in ops[c]
           /\ loc[c].video_url = req[c].url

\* The same for the analyzer's coordinator alone.
C20_MissIsNotFatalForAnalyzer ==
    \A c \in Calls :
        /\ Finished(c)
        /\ AskedResolver(c)
        /\ req[c].coordinator = "analyze_brand"
        /\ loc[c].direct = JNull
        => /\ "task_create_url" \in ops[c]
           /\ loc[c].video_url = req[c].url


\* Call c has opened its temporary file and is uploading it.
Uploading(c) == pc[c] = "upload"

C21_Step(c) ==
    Uploading(c) =>
        /\ loc[c].temp_path \in DOMAIN tempFiles
        /\ loc[c].temp_path \in DOMAIN tempFiles'
        /\ tempFiles'[loc[c].temp_path] = tempFiles[loc[c].temp_path]

\* C21: while a call uploads its temporary file, the file is there and no
\* step of any call removes it or writes it again, whatever the interleaving
\* of two calls that download the same YouTube video.
C21_TempFilePrivate == [][\A c \in Calls : C21_Step(c)]_vars

\* The same when calls do not overlap.
C21_TempFilePrivateWhenSequential ==
    [][~callers.overlap => \A c \in Calls : C21_Step(c)]_vars


\* The wait for the task of call c ends in this step.
TaskWaitEnds(c) == pc[c] = "wait_task" /\ pc'[c] # "wait_task"

\* The task-status call of this step raised.
RetrieveRaised(c) ==
    pc'[c] = "raised" /\ res'[c].exc = Exc("BackendError", "tasks.retrieve")

C22_Step(c) ==
    TaskWaitEnds(c) =>
        \/ loc'[c].status \in {"ready", "failed"}
        \/ loc[c].now > loc[c].deadline

\* C22: the wait for the task ends only with a terminal status or past the
\* deadline: a task-status call that raises before the deadline does not end
\* it.
C22_WaitSurvivesRetrieveError == [][\A c \in Calls : C22_Step(c)]_vars

\* The same for the steps whose task-status call answers.
C22_WaitEndsOnTerminalOrDeadline ==
    [][\A c \in Calls : ~RetrieveRaised(c) => C22_Step(c)]_vars


\* The source ids and the brands of the calls made.
MenuIds == {yt_id_of(r) : r \in callers.menu} \ {NoneText}
MenuBrands == {r.brand : r \in callers.menu}
MappingKeys == {redis_key_video_map(redis_prefix, y) : y \in MenuIds}
MenuAnalysisKeys == {redis_key_analysis(redis_prefix, y, b) : y \in MenuIds, b \in MenuBrands}

\* The entry under k is the same before and after the step.
Untouched(k) ==
    (k \in DOMAIN cache <=> k \in DOMAIN cache')
    /\ (k \in DOMAIN cache => cache'[k] = cache[k])

C23_Step ==
    /\ MappingKeys \cap MenuAnalysisKeys = {}
    /\ \A c \in Calls :
         /\ pc[c] = "store_mapping" /\ pc'[c] # pc[c] =>
               \A k \in MenuAnalysisKeys : Untouched(k)
         /\ pc[c] = "store_analysis" /\ pc'[c] # pc[c] =>
               \A k \in MappingKeys : Untouched(k)
         /\ pc[c] = "read_mapping" /\ pc'[c] = "generate" =>
               \A k \in MenuAnalysisKeys \cap DOMAIN cache : loc'[c].video_id # cache[k].chars

\* C23: no mapping key of a source id is the analysis key of a source id and
\* a brand, so the write of a mapping changes no analysis entry, the write of
\* an analysis changes no mapping entry, and no analysis entry is read as a
\* mapping.
C23_KeySpacesIndependent == [][C23_Step]_vars


\* Call c of summarize_url has a file id from the ingest.
HasFileId(c) == "file_id" \in DOMAIN loc[c] /\ loc[c].file_id # NoneText

\* C24: once the ingest has given a file id, summarize_url goes on to wait for
\* the file and to describe it: it ends with a result carrying collection_id,
\* file_id, summary and raw, or with the CloudglueError of a failed or late
\* processing or of a failed describe call, and with nothing else.
C24_SummarizeUrlReachesDescribe ==
    \A c \in Calls :
        HasFileId(c) =>
            /\ pc[c] = "raised" => res[c].exc.type = "CloudglueError"
            /\ pc[c] = "returned" =>
                  DOMAIN res[c].ret = {"collection_id", "file_id", "summary", "raw"}

\* C25: a request to POST /analyze is answered 400 exactly when it names no
\* source or analyze raises a ValueError-class exception, 500 for every other
\* exception of the construction of the analyzer or of analyze, and so with
\* the same status by both front-ends.
status_by_contract(r, answer) ==
    IF no_source(r) THEN 400
    ELSE IF answer.exc = None THEN 200
    ELSE IF answer.stage = "analyze" /\ is_value_error(answer.exc) THEN 400
    ELSE 500
C25_StatusByContract ==
    \A c \in Calls : Answered(c) => res[c].status = status_by_contract(req[c], res[c])

\* apis/main.py answers by the contract.
C25_StatusByContractInMain ==
    \A c \in Calls :
        Answered(c) /\ callers.frontend = "apis.main"
            => res[c].status = status_by_contract(req[c], res[c])
C25_SeenNoSourceInMain ==
    \E c \in Calls :
        Answered(c) /\ callers.frontend = "apis.main" /\ no_source(req[c])
            /\ res[c].status = 400

\* C26: a call downloads and uploads only after its task creation by URL has
\* raised, for a YouTube URL, with the download fallback enabled; otherwise
\* the call leaves the creation by URL with a task or with the error, and it
\* has neither downloaded nor uploaded.
FallbackOps == {"download", "task_create_file"}
CreationRaised(c) ==
    "task_create_url" \in ops[c] /\ loc[c].pending = Exc("BackendError", "tasks.create")
FallbackPermitted(c) ==
    is_youtube_url(loc[c].url) /\ config.allow_youtube_download_fallback
C26_Step(c) ==
    /\ "download" \in ops'[c] \ ops[c] => CreationRaised(c) /\ FallbackPermitted(c)
    /\ "task_create_file" \in ops'[c] \ ops[c]
         => "download" \in ops[c] /\ CreationRaised(c) /\ FallbackPermitted(c)
    /\ pc[c] = "create_url" /\ pc'[c] # pc[c] /\ ~FallbackPermitted(c)
         => /\ pc'[c] \in {"wait_task", "raised"}
            /\ ops'[c] \cap FallbackOps = {}
            /\ pc'[c] = "raised"
                 => res'[c].exc \in {Exc("BackendError", "tasks.create"),
                                     Exc("RuntimeError", "Task creation response missing id.")}
C26_FallbackOnlyWhenPermitted == [][\A c \in Calls : C26_Step(c)]_vars
C26_FallbackRan ==
    \E c \in Calls :
        /\ pc[c] = "returned"
        /\ FallbackOps \subseteq ops[c]
        /\ "task_create_url" \in ops[c]
C26_CreationErrorPropagated ==
    \E c \in Calls :
        /\ pc[c] = "raised"
        /\ res[c].exc = Exc("BackendError", "tasks.create")
        /\ is_youtube_url(loc[c].url)
        /\ ~config.allow_youtube_download_fallback

\* C27: a call that raises at the ingest stage (index resolution, task
\* creation by URL or by upload, the task wait, the retrievability wait) has
\* made no generation call and written neither the mapping nor the analysis,
\* and the step that raises leaves the store as it was; a call whose task
\* reported a failure goes no further.
IngestStages ==
    {"index_list", "index_create", "index_relist", "read_mapping", "create_url",
     "download", "open_file", "upload", "remove_temp", "wait_task", "wait_ready"}
AfterIngestOps == {"generate", "set_mapping", "set_analysis"}
AbortsAtIngest(c) == pc[c] \in IngestStages /\ pc'[c] = "raised"
C27_Step(c) ==
    /\ AbortsAtIngest(c) => ops'[c] \cap AfterIngestOps = {} /\ cache' = cache
    /\ loc'[c].status = "failed" => pc'[c] = "raised" /\ ops'[c] \cap AfterIngestOps = {}
C27_IngestAbortWritesNothing == [][\A c \in Calls : C27_Step(c)]_vars
C27_AbortedOnFailedTask ==
    \E c \in Calls :
        /\ pc[c] = "raised"
        /\ loc[c].status = "failed"
        /\ UsesCache(c)
        /\ redis_key_video_map(redis_prefix, loc[c].yt_id) \notin DOMAIN cache

\* How the waits end when their calls answer: the task wait with a terminal
\* status or its timeout, the retrievability wait with a retrieve that
\* succeeded or its timeout past the deadline.
ReadyWaitEnds(c) == pc[c] = "wait_ready" /\ pc'[c] # "wait_ready"
C28_Step(c) ==
    /\ TaskWaitEnds(c) /\ ~RetrieveRaised(c)
         => \/ loc'[c].status \in {"ready", "failed"}
            \/ res'[c].exc = Exc("TimeoutError", "Timed out waiting for indexing task.")
    /\ ReadyWaitEnds(c)
         => \/ pc'[c] \in {"store_mapping", "generate"}
            \/ /\ res'[c].exc = Exc("TimeoutError", "Timed out waiting for video to be retrievable.")
               /\ loc[c].now > loc[c].deadline

\* C28: a call in the task wait eventually leaves it, and a call in the
\* retrievability wait eventually leaves it, whatever statuses and errors
\* the backend answers with; the waits end with a terminal response, a
\* successful retrieve or a timeout.
C28_WaitsTerminate ==
    /\ \A c \in Calls :
         /\ (pc[c] = "wait_task") ~> (pc[c] # "wait_task")
         /\ (pc[c] = "wait_ready") ~> (pc[c] # "wait_ready")
    /\ [][\A c \in Calls : C28_Step(c)]_vars
C28_TaskWaitTimedOut ==
    \E c \in Calls :
        /\ pc[c] = "raised"
        /\ res[c].exc = Exc("TimeoutError", "Timed out waiting for indexing task.")
        /\ loc[c].status = "pending"
        /\ loc[c].now > loc[c].deadline
C28_ReadyWaitTimedOut ==
    \E c \in Calls :
        /\ pc[c] = "raised"
        /\ res[c].exc = Exc("TimeoutError", "Timed out waiting for video to be retrievable.")
        /\ loc[c].now > loc[c].deadline

\* A retrieve that raises up to the deadline of the wait is swallowed and
\* retried one poll interval later; the wait ends with a retrieve that
\* succeeded, or with the timeout once its deadline has passed.
C29_Retry(c) ==
    /\ pc[c] = "wait_ready" /\ pc'[c] = "wait_ready" /\ loc'[c] # loc[c]
         => /\ loc[c].now <= loc[c].deadline
            /\ loc'[c].now = loc[c].now + poll_interval_sec
            /\ loc'[c].deadline = loc[c].deadline
    /\ ReadyWaitEnds(c)
         => \/ pc'[c] \in {"store_mapping", "generate"}
            \/ /\ pc'[c] = "raised"
               /\ res'[c].exc = Exc("TimeoutError", "Timed out waiting for video to be retrievable.")
               /\ loc[c].now > loc[c].deadline

\* The deadline of the task wait of an ingest: the clock reads 0 when the
\* ingest starts its wait.
TaskWaitDeadline == NoLocals.now + timeout_sec

\* The retrievability wait runs against the deadline of the task wait.
C29_SameDeadline(c) ==
    pc'[c] = "wait_ready" => loc'[c].deadline = TaskWaitDeadline

\* C29: the retrievability wait swallows and retries every retrieve error up
\* to the deadline, ends only with a successful retrieve or the timeout past
\* the deadline, and its deadline is the one of the task wait of the ingest.
C29_RetriedUntilSameDeadline ==
    [][\A c \in Calls : C29_Retry(c) /\ C29_SameDeadline(c)]_vars

\* The same without the deadline being shared: each wait has its own.
C29_RetriedUntilOwnDeadline == [][\A c \in Calls : C29_Retry(c)]_vars
C29_RetriedPastTaskDeadline ==
    \E c \in Calls :
        /\ pc[c] = "wait_ready"
        /\ loc[c].now > TaskWaitDeadline
        /\ loc[c].now <= loc[c].deadline

\* Call c has created a task for its URL.
Ingested(c) == ops[c] \cap {"task_create_url", "task_create_file"} # {}

\* C30: a call that ingested its URL makes the generation call only after it
\* saw its task ready and, after that, left the retrievability wait with a
\* retrieve that succeeded; it reaches the stages after the ingest only that way.
C30_Step(c) ==
    /\ Ingested(c) /\ "generate" \in ops'[c] \ ops[c]
         => /\ loc[c].status = "ready"
            /\ {"task_retrieve", "video_retrieve"} \subseteq ops[c]
    /\ Ingested(c) /\ pc'[c] # pc[c] /\ pc'[c] \in {"store_mapping", "generate"}
         => \/ pc[c] = "wait_ready" /\ loc[c].status = "ready" /\ "video_retrieve" \in ops'[c]
            \/ pc[c] = "store_mapping" /\ "video_retrieve" \in ops[c]
    /\ pc'[c] = "wait_ready" /\ pc[c] # "wait_ready"
         => pc[c] = "wait_task" /\ loc'[c].status = "ready"
C30_GenerationAfterRetrievable == [][\A c \in Calls : C30_Step(c)]_vars
C30_GeneratedAfterRetrieve ==
    \E c \in Calls :
        /\ pc[c] = "returned"
        /\ Ingested(c)
        /\ {"task_retrieve", "video_retrieve", "generate"} \subseteq ops[c]
        /\ loc[c].status = "ready"

\* Call c creates a task in this step.
CreatesTask(c) == nTasks' = nTasks + 1 /\ pc'[c] # pc[c]

\* C31: a call creates at most one task: it creates one only while it holds
\* none, by upload only after its creation by URL raised; the task it polls
\* and whose video id it takes is the one it created, and no other call
\* holds that task.
C31_Step(c) ==
    /\ CreatesTask(c)
         => /\ loc[c].task_id = NoneText
            /\ pc[c] \in {"create_url", "upload"}
            /\ pc[c] = "upload" => CreationRaised(c)
            /\ loc'[c].task_id \in {NoneText, TaskId(nTasks')}
    /\ pc[c] \in {"wait_task", "wait_ready"} /\ pc'[c] # "gone"
         => /\ TruthyText(loc[c].task_id)
            /\ loc'[c].task_id = loc[c].task_id
            /\ \A d \in Calls \ {c} : loc[d].task_id # loc[c].task_id
    /\ pc[c] = "wait_task" /\ pc'[c] = "wait_ready"
         => loc'[c].video_id = <<"w", loc[c].task_id[2]>>
C31_OneTaskPerIngest == [][\A c \in Calls : C31_Step(c)]_vars
C31_UploadedAfterRejection ==
    \E c \in Calls :
        /\ pc[c] = "wait_ready"
        /\ {"task_create_url", "task_create_file"} \subseteq ops[c]
        /\ loc[c].task_id = TaskId(nTasks)
        /\ nTasks = 1

\* The resolution of the collection raises in this step.
CollectionRaises(c) == pc[c] \in {"cg_post", "cg_list"} /\ pc'[c] = "raised"

\* C32: the resolution of the collection raises CloudglueError only after
\* every creation body and every list parameter set has been tried: a POST
\* that raises or is rejected is followed by the next request.
C32_Step(c) ==
    CollectionRaises(c)
        => /\ res'[c].exc.type = "CloudglueError"
           /\ loc'[c].posts = Len(CreationShapes)
           /\ loc'[c].lists = Len(ListShapes)
C32_ErrorOnlyAfterEveryShape == [][\A c \in Calls : C32_Step(c)]_vars

\* The listing is given up only after every parameter set: a GET that raises,
\* is not ok or matches nothing is followed by the next.
C32_ErrorOnlyAfterEveryListShape ==
    [][\A c \in Calls :
          pc[c] = "cg_list" /\ pc'[c] = "raised" => loc'[c].lists = Len(ListShapes)]_vars
C32_RaisedOnFirstPost ==
    \E c \in Calls :
        /\ pc[c] = "raised"
        /\ res[c].exc = Exc("CloudglueError", "collections POST failed")
        /\ loc[c].posts = 1
        /\ loc[c].lists = 0

\* The exceptions of a failed creation of the index.
CreationErrors ==
    {Exc("BackendError", "indexes.create"),
     Exc("RuntimeError", "Index creation succeeded but id missing.")}

\* C33: a creation of the index that fails is followed by a listing; when the
\* listing answers with an index of the name that has an id, that id is
\* returned; the creation's exception is raised only when the listing shows
\* no such index.
C33_Step(c) ==
    /\ pc[c] = "index_create" /\ pc'[c] # pc[c]
         => \/ pc'[c] = "read_mapping" /\ loc'[c].index_id = BackendIndexId
            \/ pc'[c] = "index_relist" /\ loc'[c].pending \in CreationErrors
    /\ pc[c] = "index_relist" /\ pc'[c] # pc[c]
         => /\ loc[c].pending \in CreationErrors
            /\ index = "present" /\ faults' = faults
                 => pc'[c] = "read_mapping" /\ loc'[c].index_id = BackendIndexId
            /\ pc'[c] = "raised" /\ res'[c].exc \in CreationErrors
                 => /\ res'[c].exc = loc[c].pending
                    /\ index = "absent" \/ faults' = faults + 1
            /\ pc'[c] \in {"read_mapping", "raised"}
C33_CreationConflictListsAndMatches == [][\A c \in Calls : C33_Step(c)]_vars
C33_FoundAfterConflict ==
    /\ callers.overlap
    /\ \E c, d \in Calls :
         /\ c # d
         /\ "index_create" \in ops[c] \cap ops[d]
         /\ loc[c].index_id = BackendIndexId
         /\ loc[d].index_id = BackendIndexId
C33_CreationErrorPropagated ==
    \E c \in Calls :
        /\ pc[c] = "raised"
        /\ res[c].exc = Exc("BackendError", "indexes.create")
        /\ index = "absent"

\* Letters of either case and digits, in ASCII or not; the letter in lower
\* case.
IsLetterOrDigit(ch) == ch \in {"A", "a", "B", "b", "É", "é"} \cup DigitChars \cup LowerChars
CaseFolded(ch) ==
    CASE ch = "A" -> "a" [] ch = "B" -> "b" [] ch = "É" -> "é" [] OTHER -> ch

\* The words of a brand: its maximal runs of letters and digits, case folded.
RECURSIVE WordsOf(_, _)
WordsOf(s, word) ==
    LET done == IF word = <<>> THEN <<>> ELSE <<word>>
    IN  IF s = <<>> THEN done
        ELSE IF IsLetterOrDigit(Head(s))
             THEN WordsOf(Tail(s), Append(word, CaseFolded(Head(s))))
             ELSE done \o WordsOf(Tail(s), <<>>)

\* Two brands differ only in letter case or in their runs of other characters.
SameWords(b1, b2) == WordsOf(b1, <<>>) = WordsOf(b2, <<>>)

\* Only lowercase letters, digits and single separators, none at the ends.
IsNormalKey(k) ==
    /\ \A i \in 1..Len(k) : k[i] \in LowerChars \cup DigitChars \cup {"_"}
    /\ \A i \in 1..(Len(k) - 1) : ~(k[i] = "_" /\ k[i + 1] = "_")
    /\ k # <<>> => k[1] # "_" /\ k[Len(k)] # "_"

Keyed(c) == pc[c] \in {"keyed", "keyed_again"}

\* C34: the key of a brand is built of lowercase letters, digits and single
\* separators with none at the ends; the key of a key is that key; and two
\* brands that differ only in letter case or in their runs of other
\* characters have the same key.
C34_BrandKeyNormalizes ==
    /\ \A c \in Calls : Keyed(c) => IsNormalKey(res[c].key)
    /\ \A c \in Calls : pc[c] = "keyed_again" => res[c].again = res[c].key
    /\ \A c, d \in Calls :
         Keyed(c) /\ Keyed(d) /\ SameWords(req[c].brand, req[d].brand)
             => res[c].key = res[d].key
C34_SameKeyForVariants ==
    /\ req[1].brand = <<"a", "-", "-", "a">>
    /\ req[2].brand = <<"A", "_", "A">>
    /\ pc[1] = "keyed_again" /\ pc[2] = "keyed_again"
    /\ res[1].key = <<"a", "_", "a">>
    /\ res[2].key = res[1].key

\* C35: the brand recorded in an envelope analyze returned has the key of the
\* brand the call was made with, whether the envelope was computed or read
\* from the cache.
C35_EnvelopeBrandMatchesRequest ==
    \A c \in Calls :
        pc[c] = "returned" => brand_key(res[c].ret.meta.brand) = brand_key(req[c].brand)
C35_HitAndFreshEnvelopes ==
    \E c, d \in Calls :
        /\ pc[c] = "returned" /\ pc[d] = "returned"
        /\ "generate" \in ops[c]
        /\ "generate" \notin ops[d]
        /\ res[d].ret.meta.brand # req[d].brand
        /\ brand_key(res[d].ret.meta.brand) = brand_key(req[d].brand)

\* The mapping key of YouTube id y holds a video id.
HoldsMapping(y) == redis_key_video_map(redis_prefix, y) \in DOMAIN cache
MappedId(y) == cache[redis_key_video_map(redis_prefix, y)].chars

\* C36: whenever the cache holds both a mapping entry and an analysis
\* envelope for the same YouTube id, the envelope's meta.video_id is the video
\* id the mapping entry holds.
C36_TiersAgree ==
    \A y \in YoutubeIds, b \in Brands :
        LET k == redis_key_analysis(redis_prefix, y, b)
        IN  HoldsMapping(y) /\ HoldsEnvelope(k) => Stored(k).meta.video_id = MappedId(y)

\* The disagreement as overlapping ingests of one video leave it: both calls
\* returned, each having uploaded its own copy, and the mapping names the
\* copy of one while the envelope is about the copy of the other.
C36_OverlapLeavesTiersApart ==
    \E c, d \in Calls :
        /\ c # d
        /\ pc[c] = "returned" /\ pc[d] = "returned"
        /\ loc[c].yt_id = loc[d].yt_id
        /\ KeyOf(c) = KeyOf(d)
        /\ HoldsMapping(loc[c].yt_id) /\ HoldsEnvelope(KeyOf(c))
        /\ MappedId(loc[c].yt_id) = loc[d].video_id
        /\ Stored(KeyOf(c)).meta.video_id = loc[c].video_id
        /\ loc[c].video_id # loc[d].video_id

\* A step of call c that changes the entry under mapping key k writes the
\* video id of the task c created, after that task was reported ready and
\* the video was retrieved.
WritesMapping(c, k) ==
    /\ pc[c] = "store_mapping" /\ pc'[c] # pc[c]
    /\ k = MapKeyOf(c)
    /\ cache'[k].chars = loc[c].video_id
    /\ Ingested(c)
    /\ loc[c].task_id # NoneText
    /\ loc[c].video_id = VideoIdOf(loc[c].task_id)
    /\ loc[c].status = "ready"
    /\ {"task_retrieve", "video_retrieve"} \subseteq ops[c]
C37_Step ==
    /\ \A y \in YoutubeIds :
         LET k == redis_key_video_map(redis_prefix, y)
         IN  ~Untouched(k) => \E c \in Calls : WritesMapping(c, k)
    /\ \A c \in Calls :
         "set_mapping" \in ops'[c] /\ "set_mapping" \notin ops[c]
             => loc[c].status = "ready" /\ "video_retrieve" \in ops[c]

\* C37: every value written under a mapping key is the video id of a task
\* the writing call created, whose status was ready and whose video the call
\* retrieved before the write; no mapping is written by a call whose ingest
\* failed, timed out or has not yet found the video retrievable.
C37_MappingOnlyAfterReadyIngest == [][C37_Step]_vars
C37_MappedAfterIngest ==
    \E c \in Calls :
        /\ pc[c] = "generate"
        /\ "set_mapping" \in ops[c]
        /\ Ingested(c)
        /\ loc[c].status = "ready"
        /\ HoldsMapping(loc[c].yt_id)
        /\ MappedId(loc[c].yt_id) = loc[c].video_id
        /\ loc[c].video_id = VideoIdOf(loc[c].task_id)

\* A call served from the analysis tier: it returned without a generation
\* call.
ServedFromCache(c) == pc[c] = "returned" /\ "generate" \notin ops[c]

\* Calls c and d differ in their generation parameters only.
DifferInParamsOnly(c, d) ==
    /\ req[c].youtube_url = req[d].youtube_url
    /\ brand_key(req[c].brand) = brand_key(req[d].brand)
    /\ <<req[c].temperature, req[c].max_tokens, req[c].metadata>>
           # <<req[d].temperature, req[d].max_tokens, req[d].metadata>>

\* A read of the analysis key that finds an envelope returns it and is the
\* only operation of the call, whatever the parameters of the call.
C38_Step(c) ==
    pc[c] = "read_analysis" /\ pc'[c] # pc[c] /\ HoldsEnvelope(KeyOf(c))
        => /\ pc'[c] = "returned"
           /\ res'[c].ret = Stored(KeyOf(c))
           /\ ops'[c] = {"get_analysis"}
           /\ cache' = cache /\ nTasks' = nTasks

\* C38: a call that finds an envelope under its analysis key returns that
\* envelope and makes no backend call, whatever its temperature, max_tokens
\* and metadata; two calls served from the cache for the same video and
\* brand key with no write of the analysis in between have equal envelopes
\* and the same single operation, the read.
C38_HitIgnoresParameters ==
    /\ [][\A c \in Calls : C38_Step(c)]_vars
    /\ [](\A c, d \in Calls :
            /\ ServedFromCache(c) /\ ServedFromCache(d)
            /\ KeyOf(c) = KeyOf(d)
            /\ \A e \in Calls : "set_analysis" \notin ops[e]
            => res[c].ret = res[d].ret /\ ops[c] = {"get_analysis"} /\ ops[d] = ops[c])
C38_TwoHitsWithOtherParameters ==
    \E c, d \in Calls :
        /\ ServedFromCache(c) /\ ServedFromCache(d)
        /\ DifferInParamsOnly(c, d)
        /\ req[c].temperature = JNum(0) /\ req[c].max_tokens = JNum(1)
        /\ req[c].metadata # None
        /\ req[d].temperature = None /\ req[d].max_tokens = None
        /\ req[d].brand # req[c].brand
        /\ res[c].ret = EarlierEnvelope /\ res[d].ret = res[c].ret
        /\ ops[c] = {"get_analysis"} /\ ops[d] = {"get_analysis"}

\* Without the cache the parameters decide what the calls return.
C38_MissesDependOnParameters ==
    \E c, d \in Calls :
        /\ pc[c] = "returned" /\ pc[d] = "returned"
        /\ "generate" \in ops[c] /\ "generate" \in ops[d]
        /\ DifferInParamsOnly(c, d)
        /\ res[c].ret.errors = <<>> /\ res[d].ret.errors # <<>>

\* The stages of _ensure_index, and a call that has its index id.
IndexStages == {"index_list", "index_create", "index_relist"}
HasIndex(c) == TruthyText(loc[c].index_id)

\* A step of _ensure_index in one of several overlapping calls, with a
\* backend that fails in nothing but rejecting a creation under a name that
\* exists, does not raise, goes on to the next stage or out of the resolution, and leaves
\* the resolution with the id every other call has.
C39_Step(c) ==
    callers.overlap /\ pc[c] \in IndexStages /\ pc'[c] # pc[c]
        => /\ pc'[c] # "raised"
           /\ faults' = faults
           /\ pc[c] = "index_list" => pc'[c] \in {"index_create", "read_mapping"}
           /\ pc[c] = "index_create" => pc'[c] \in {"index_relist", "read_mapping"}
           /\ pc[c] = "index_relist" => pc'[c] = "read_mapping"
           /\ pc'[c] = "read_mapping"
                => /\ HasIndex(c)'
                   /\ index' = "present"
                   /\ \A d \in Calls : HasIndex(d)' => loc'[d].index_id = loc'[c].index_id

\* C39: when overlapping calls resolve the index with no configured id and
\* no index of the name, and the backend rejects a creation under a name
\* that exists, no call raises in the resolution and all calls leave it with
\* the same index id, however their listings and creations interleave.
C39_ConcurrentResolutionAgrees ==
    /\ [][\A c \in Calls : C39_Step(c)]_vars
    /\ [](\A c, d \in Calls :
            HasIndex(c) /\ HasIndex(d) /\ config.index_id = NoneText
                => loc[c].index_id = loc[d].index_id)
C39_BothReturnedAfterRace ==
    /\ callers.overlap
    /\ config.index_id = NoneText
    /\ \E c, d \in Calls :
         /\ c # d
         /\ pc[c] = "returned" /\ pc[d] = "returned"
         /\ "index_create" \in ops[c] \cap ops[d]
         /\ "generate" \in ops[c] \cap ops[d]
         /\ res[c].ret.meta.index_id = BackendIndexId
         /\ res[d].ret.meta.index_id = res[c].ret.meta.index_id
====
